---- MODULE Spec2Model ----
(***************************************************************************)
(* Model of the chunking and prioritisation engine of tekk-python:         *)
(*   src/tools/ast_chunker.py  (ASTChunker: index, centrality, traversal   *)
(*                              order, unit splitting, chunk building)     *)
(*   src/tools/llm_scanner.py  (LLMScanner: token estimate, group packer,  *)
(*                              group-by-group analysis, combined report)  *)
(*                                                                         *)
(* Text is a sequence of one-character strings, so that split, strip,      *)
(* slicing and the regular expressions of the code are computed on the     *)
(* characters.  Line numbers and offsets are 0-based as in the code; the   *)
(* 1-based indexing of TLA+ sequences is confined to the operators.        *)
(***************************************************************************)
EXTENDS Integers, Sequences, FiniteSets, TLC

VARIABLES
    pc,               \* position in analyze_repository / chunk_repository
    run,              \* 1 in the first run on the tree, 2 in the second
    first_run,        \* what the first run produced, kept for the second
    repo_path,        \* the repository root
    tree,             \* the files under the root, in rglob order
    size_threshold,   \* ASTChunker.size_threshold
    prelude_lines,    \* ASTChunker.prelude_lines
    file_metadata,    \* list of FileMetadata built by _index_repository
    traversal_order,  \* list of paths built by _determine_traversal_order
    units,            \* units[i]: what the unit parser gave for file i
    chunks,           \* list of ChunkMetadata built by _create_chunks
    group_input,      \* the chunk list handed to _group_chunks_by_context
    chunk_index,      \* how many chunks of group_input the packer has seen
    packer,           \* the packer's groups, current_group, current_tokens
    groups,           \* the groups the packer returned
    analysis_results, \* LLMScanner.analysis_results
    prompts,          \* what each prompt handed to run_llm was built from
    final_report      \* what _combine_analysis_results returned

vars == <<pc, run, first_run, repo_path, tree, size_threshold, prelude_lines,
          file_metadata, traversal_order, units, chunks, group_input,
          chunk_index, packer, groups, analysis_results, prompts,
          final_report>>

\* Optional values: None is the empty tuple, a present value x is <<x>>
None == <<>>
Some(x) == <<x>>

-----------------------------------------------------------------------------
(* Characters and Python's str operations                                  *)

NL == "\n"
Whitespace == {" ", "\t", "\n", "\r"}

LowerLetters == <<"a","b","c","d","e","f","g","h","i","j","k","l","m",
                  "n","o","p","q","r","s","t","u","v","w","x","y","z">>
UpperLetters == <<"A","B","C","D","E","F","G","H","I","J","K","L","M",
                  "N","O","P","Q","R","S","T","U","V","W","X","Y","Z">>
Digits == {"0","1","2","3","4","5","6","7","8","9"}

\* \w of the re module (ASCII part)
WordChar == {LowerLetters[i] : i \in DOMAIN LowerLetters}
            \cup {UpperLetters[i] : i \in DOMAIN UpperLetters}
            \cup Digits \cup {"_"}

\* str.lower() on one character
LowerChar(c) ==
    IF \E i \in DOMAIN UpperLetters : UpperLetters[i] = c
    THEN LowerLetters[CHOOSE i \in DOMAIN UpperLetters : UpperLetters[i] = c]
    ELSE c

Lower(s) == [i \in DOMAIN s |-> LowerChar(s[i])]

Min(a, b) == IF a <= b THEN a ELSE b

\* s[a:b] of Python for 0 <= a, 0 <= b: both ends are clamped to len(s)
Slice(s, a, b) == SubSeq(s, Min(a, Len(s)) + 1, Min(b, Len(s)))

StartsWith(s, p) == Len(s) >= Len(p) /\ SubSeq(s, 1, Len(p)) = p

\* p in s
Contains(s, p) ==
    \E i \in 0..(Len(s) - Len(p)) : SubSeq(s, i + 1, i + Len(p)) = p

RECURSIVE LStrip(_)
LStrip(s) == IF s # <<>> /\ Head(s) \in Whitespace THEN LStrip(Tail(s)) ELSE s

RECURSIVE RStrip(_)
RStrip(s) ==
    IF s # <<>> /\ s[Len(s)] \in Whitespace
    THEN RStrip(SubSeq(s, 1, Len(s) - 1)) ELSE s

Strip(s) == RStrip(LStrip(s))

\* s.strip(chars) for a set of characters
RECURSIVE StripChars(_, _)
StripChars(s, cs) ==
    IF s # <<>> /\ Head(s) \in cs THEN StripChars(Tail(s), cs)
    ELSE IF s # <<>> /\ s[Len(s)] \in cs
         THEN StripChars(SubSeq(s, 1, Len(s) - 1), cs)
         ELSE s

\* s.split(sep) for a one-character separator: always at least one piece
RECURSIVE SplitAcc(_, _, _, _, _)
SplitAcc(s, sep, i, cur, acc) ==
    IF i > Len(s) THEN Append(acc, cur)
    ELSE IF s[i] = sep THEN SplitAcc(s, sep, i + 1, <<>>, Append(acc, cur))
    ELSE SplitAcc(s, sep, i + 1, Append(cur, s[i]), acc)

Split(s, sep) == SplitAcc(s, sep, 1, <<>>, <<>>)

\* '\n'.join(lines)
RECURSIVE Join(_)
Join(lines) ==
    IF lines = <<>> THEN <<>>
    ELSE IF Len(lines) = 1 THEN lines[1]
    ELSE lines[1] \o <<NL>> \o Join(Tail(lines))

\* len(s.split()): the number of maximal runs of non-whitespace characters
WordCount(s) ==
    Cardinality({i \in DOMAIN s :
        s[i] \notin Whitespace /\ (i = 1 \/ s[i - 1] \in Whitespace)})

\* the longest prefix of s made of characters of cs
RECURSIVE TakeWhile(_, _)
TakeWhile(s, cs) ==
    IF s # <<>> /\ Head(s) \in cs
    THEN <<Head(s)>> \o TakeWhile(Tail(s), cs) ELSE <<>>

\* sum(len(line) + 1 for line in lines[:n])
RECURSIVE SumLens(_, _)
SumLens(lines, n) ==
    IF n <= 0 \/ lines = <<>> THEN 0
    ELSE Len(lines[1]) + 1 + SumLens(Tail(lines), n - 1)

-----------------------------------------------------------------------------
(* Regular expressions of the unit splitter                                *)

KwClass == <<"c","l","a","s","s">>
KwDef == <<"d","e","f">>

\* re.match(r'^KW\s+(\w+)', s): group 1, or <<>> when there is no match
\* (\s+ and \w+ are greedy and cannot give characters back to each other)
MatchKwName(s, kw) ==
    IF ~StartsWith(s, kw) THEN <<>>
    ELSE LET rest == SubSeq(s, Len(kw) + 1, Len(s))
             after == LStrip(rest)
         IN  IF Len(after) = Len(rest) THEN <<>> ELSE TakeWhile(after, WordChar)

\* len(line) - len(line.lstrip())
Indent(line) == Len(line) - Len(LStrip(line))


KwExport == <<"e","x","p","o","r","t">>
KwFunction == <<"f","u","n","c","t","i","o","n">>
KwConst == <<"c","o","n","s","t">>
KwAsync == <<"a","s","y","n","c">>

\* what is left of s after the optional group (?:KW\s+)? has matched greedily
SkipOptional(s, kw) ==
    IF StartsWith(s, kw)
    THEN LET rest == SubSeq(s, Len(kw) + 1, Len(s))
         IN  IF rest # <<>> /\ Head(rest) \in Whitespace THEN LStrip(rest) ELSE s
    ELSE s

\* re.match(r'^(?:export\s+)?class\s+(\w+)', s): group 1 or <<>>
MatchJsClass(s) == MatchKwName(SkipOptional(s, KwExport), KwClass)

\* re.match(r'^(?:export\s+)?(?:function\s+\w+|const\s+\w+\s*=\s*(?:async\s+)?\s*\()', s)
MatchJsFunctionLine(s) ==
    LET t == SkipOptional(s, KwExport)
        c == MatchKwName(t, KwConst)
        atName == LStrip(SubSeq(t, Len(KwConst) + 1, Len(t)))
        afterName == LStrip(SubSeq(atName, Len(c) + 1, Len(atName)))
        afterEq == SkipOptional(LStrip(Tail(afterName)), KwAsync)
    IN  \/ MatchKwName(t, KwFunction) # <<>>
        \/ /\ c # <<>>
           /\ afterName # <<>> /\ Head(afterName) = "="
           /\ LStrip(afterEq) # <<>> /\ Head(LStrip(afterEq)) = "("

\* re.match(r'^(?:export\s+)?(?:function\s+(\w+)|const\s+(\w+))', s):
\* group(1) or group(2), or <<>> when there is no match
MatchJsFunctionName(s) ==
    LET t == SkipOptional(s, KwExport)
    IN  IF MatchKwName(t, KwFunction) # <<>> THEN MatchKwName(t, KwFunction)
        ELSE MatchKwName(t, KwConst)

-----------------------------------------------------------------------------
(* ASTChunker._extract_python_unit                                         *)

\* the for/else of lines 512-521: the line before the first later non-blank
\* line indented at most like the start line, else the last line
\* PythonEndLine in which a blank line ends the unit like any other line
\* indented at most like the start line
RECURSIVE PythonEndLineBlankEnds(_, _, _)
PythonEndLineBlankEnds(lines, i, start_indent) ==
    IF i >= Len(lines) THEN Len(lines) - 1
    ELSE IF Indent(lines[i + 1]) <= start_indent THEN i - 1
    ELSE PythonEndLineBlankEnds(lines, i + 1, start_indent)

RECURSIVE PythonEndLine(_, _, _)
PythonEndLine(lines, i, start_indent) ==
    IF i >= Len(lines) THEN Len(lines) - 1
    ELSE IF Strip(lines[i + 1]) = <<>> THEN PythonEndLine(lines, i + 1, start_indent)
    ELSE IF Indent(lines[i + 1]) <= start_indent THEN i - 1
    ELSE PythonEndLine(lines, i + 1, start_indent)

\* sum(len(line) + 1 for line in lines[:end_line + 1])
EndByte(lines, end_line) == SumLens(lines, end_line + 1)

ExtractPythonUnit(content, lines, start_line, kind) ==
    LET line == Strip(lines[start_line + 1])
        name == IF kind = "class" THEN MatchKwName(line, KwClass)
                ELSE MatchKwName(line, KwDef)
        start_indent == Indent(lines[start_line + 1])
        end_line == PythonEndLine(lines, start_line + 1, start_indent)
    IN  IF name = <<>> THEN None
        ELSE Some([kind |-> kind, name |-> name,
                   start |-> SumLens(lines, start_line),
                   end |-> EndByte(lines, end_line),
                   start_line |-> start_line, end_line |-> end_line])

-----------------------------------------------------------------------------
(* ASTChunker._extract_js_unit                                             *)

\* the inner loop over the characters of one line (lines 562-570)
RECURSIVE JsScanLine(_, _, _, _)
JsScanLine(line, k, brace_count, in_unit) ==
    IF k > Len(line)
    THEN [brace_count |-> brace_count, in_unit |-> in_unit, hit |-> FALSE]
    ELSE IF line[k] = "{" THEN JsScanLine(line, k + 1, brace_count + 1, TRUE)
    ELSE IF line[k] = "}"
         THEN IF in_unit /\ brace_count - 1 = 0
              THEN [brace_count |-> 0, in_unit |-> in_unit, hit |-> TRUE]
              ELSE JsScanLine(line, k + 1, brace_count - 1, in_unit)
    ELSE JsScanLine(line, k + 1, brace_count, in_unit)

\* the outer loop (lines 560-572): end_line is assigned only at the inner
\* break; the outer break alone leaves it at start_line
RECURSIVE JsEndLine(_, _, _, _, _)
JsEndLine(lines, i, brace_count, in_unit, start_line) ==
    IF i >= Len(lines) THEN start_line
    ELSE LET r == JsScanLine(lines[i + 1], 1, brace_count, in_unit)
         IN  IF r.hit THEN i
             ELSE IF r.in_unit /\ r.brace_count = 0 THEN start_line
             ELSE JsEndLine(lines, i + 1, r.brace_count, r.in_unit, start_line)

ExtractJsUnit(content, lines, start_line, kind) ==
    LET line == Strip(lines[start_line + 1])
        name == IF kind = "class" THEN MatchJsClass(line)
                ELSE MatchJsFunctionName(line)
        end_line == JsEndLine(lines, start_line, 0, FALSE, start_line)
    IN  IF name = <<>> THEN None
        ELSE Some([kind |-> kind, name |-> name,
                   start |-> SumLens(lines, start_line),
                   end |-> EndByte(lines, end_line),
                   start_line |-> start_line, end_line |-> end_line])

-----------------------------------------------------------------------------
(* ASTChunker._parse_regex_units                                           *)

JsLangs == {"js", "ts", "jsx", "tsx"}

\* the unit the loop body appends for line i, or None
UnitAtLine(content, lines, i, lang) ==
    LET s == Strip(lines[i + 1])
    IN  IF lang = "py"
        THEN IF MatchKwName(s, KwClass) # <<>>
             THEN ExtractPythonUnit(content, lines, i, "class")
             ELSE IF MatchKwName(s, KwDef) # <<>>
                  THEN ExtractPythonUnit(content, lines, i, "function")
                  ELSE None
        ELSE IF lang \in JsLangs
        THEN IF MatchJsClass(s) # <<>>
             THEN ExtractJsUnit(content, lines, i, "class")
             ELSE IF MatchJsFunctionLine(s)
                  THEN ExtractJsUnit(content, lines, i, "function")
                  ELSE None
        ELSE None

\* UnitsFrom that collects the units from the last line to the first
RECURSIVE UnitsFromReversed(_, _, _, _)
UnitsFromReversed(content, lines, i, lang) ==
    IF i >= Len(lines) THEN <<>>
    ELSE UnitsFromReversed(content, lines, i + 1, lang)
         \o UnitAtLine(content, lines, i, lang)

RECURSIVE UnitsFrom(_, _, _, _)
UnitsFrom(content, lines, i, lang) ==
    IF i >= Len(lines) THEN <<>>
    ELSE LET u == UnitAtLine(content, lines, i, lang)
         IN  u \o UnitsFrom(content, lines, i + 1, lang)

ParseRegexUnits(content, lang) == UnitsFrom(content, Split(content, NL), 0, lang)

-----------------------------------------------------------------------------
(* Paths (pathlib) and ASTChunker._detect_language                         *)

\* the index of the last occurrence of character c in s, 0 when there is none
LastIndexOf(s, c) ==
    IF \E i \in DOMAIN s : s[i] = c
    THEN CHOOSE i \in DOMAIN s : s[i] = c /\ \A j \in DOMAIN s : s[j] = c => j <= i
    ELSE 0

\* PurePath.name: the last component
PathName(path) == SubSeq(path, LastIndexOf(path, "/") + 1, Len(path))

\* PurePath.suffix: from the last dot of the name, unless the dot is the
\* first or the last character of the name
PathSuffix(path) ==
    LET name == PathName(path)
        i == LastIndexOf(name, ".")
    IN  IF 1 < i /\ i < Len(name) THEN SubSeq(name, i, Len(name)) ELSE <<>>

\* PurePath.stem
PathStem(path) ==
    LET name == PathName(path)
        i == LastIndexOf(name, ".")
    IN  IF 1 < i /\ i < Len(name) THEN SubSeq(name, 1, i - 1) ELSE name

\* self.lang_patterns, in dictionary order
LangPatterns ==
    << <<"py", {<<".","p","y">>}>>, <<"js", {<<".","j","s">>}>>, <<"ts", {<<".","t","s">>, <<".","t","s","x">>}>>,
       <<"jsx", {<<".","j","s","x">>}>>, <<"go", {<<".","g","o">>}>>, <<"java", {<<".","j","a","v","a">>}>>,
       <<"cs", {<<".","c","s">>}>>, <<"rs", {<<".","r","s">>}>>, <<"php", {<<".","p","h","p">>}>>,
       <<"rb", {<<".","r","b">>}>>, <<"cpp", {<<".","c","p","p">>, <<".","c","c">>, <<".","c","x","x">>}>>,
       <<"c", {<<".","c">>}>>, <<"h", {<<".","h">>, <<".","h","p","p">>}>>, <<"json", {<<".","j","s","o","n">>}>>,
       <<"yaml", {<<".","y","a","m","l">>, <<".","y","m","l">>}>>, <<"toml", {<<".","t","o","m","l">>}>>,
       <<"md", {<<".","m","d">>}>>, <<"sql", {<<".","s","q","l">>}>> >>

DetectLanguage(path) ==
    LET suffix == Lower(PathSuffix(path))
        hits == {i \in DOMAIN LangPatterns : suffix \in LangPatterns[i][2]}
    IN  IF hits = {} THEN "unknown"
        ELSE LangPatterns[CHOOSE i \in hits : \A j \in hits : i <= j][1]

-----------------------------------------------------------------------------
(* ASTChunker._should_ignore_file                                          *)

IgnorePatterns ==
    { <<".","g","i","t">>, <<"_","_","p","y","c","a","c","h","e","_","_">>, <<"n","o","d","e","_","m","o","d","u","l","e","s">>, <<".","v","e","n","v">>, <<"v","e","n","v">>,
      <<"v","e","n","d","o","r">>, <<"t","h","i","r","d","_","p","a","r","t","y">>, <<"d","i","s","t">>, <<"b","u","i","l","d">>, <<".","n","e","x","t">>,
      <<".","D","S","_","S","t","o","r","e">>, <<"*",".","l","o","g">>, <<"*",".","t","m","p">>, <<"*",".","c","a","c","h","e">> }

\* str(file_path) of a file yielded by repo_path.rglob("*")
FullPath(root, path) == root \o <<"/">> \o path

ShouldIgnoreFile(path_str) == \E p \in IgnorePatterns : Contains(path_str, p)

-----------------------------------------------------------------------------
(* ASTChunker._extract_exports                                             *)

KwAll == <<"_","_","a","l","l","_","_">>
KwDefault == <<"d","e","f","a","u","l","t">>
KwInterface == <<"i","n","t","e","r","f","a","c","e">>

\* the longest prefix of s that holds no character of cs
RECURSIVE TakeUntil(_, _)
TakeUntil(s, cs) ==
    IF s # <<>> /\ Head(s) \notin cs
    THEN <<Head(s)>> \o TakeUntil(Tail(s), cs) ELSE <<>>

\* r'__all__\s*=\s*\[([^\]]+)\]' matched at the start of s: Some(group 1) or None
MatchAllAt(s) ==
    IF ~StartsWith(s, KwAll) THEN None
    ELSE LET t1 == LStrip(SubSeq(s, Len(KwAll) + 1, Len(s)))
         IN  IF t1 = <<>> \/ Head(t1) # "=" THEN None
             ELSE LET t2 == LStrip(Tail(t1))
                  IN  IF t2 = <<>> \/ Head(t2) # "[" THEN None
                      ELSE LET body == TakeUntil(Tail(t2), {"]"})
                           IN  IF body = <<>> \/ Len(body) = Len(Tail(t2))
                               THEN None ELSE Some(body)

\* re.search: the leftmost position where the pattern matches
SearchAll(content) ==
    LET hits == {p \in 0..Len(content) :
                    MatchAllAt(SubSeq(content, p + 1, Len(content))) # None}
    IN  IF hits = {} THEN None
        ELSE MatchAllAt(SubSeq(content,
                 (CHOOSE p \in hits : \A q \in hits : p <= q) + 1, Len(content)))

\* 'export\s+(?:default\s+)?(?:function\s+(\w+)|const\s+(\w+)|class\s+(\w+)
\* |interface\s+(\w+))' matched at the start of s: Some(<<name, length of
\* the match>>) or None
MatchExportAt(s) ==
    IF ~StartsWith(s, KwExport) THEN None
    ELSE LET r == SubSeq(s, Len(KwExport) + 1, Len(s))
             t == SkipOptional(LStrip(r), KwDefault)
             kws == <<KwFunction, KwConst, KwClass, KwInterface>>
             ok == {i \in DOMAIN kws : MatchKwName(t, kws[i]) # <<>>}
         IN  IF Len(LStrip(r)) = Len(r) \/ ok = {} THEN None
             ELSE LET kw == kws[CHOOSE i \in ok : \A j \in ok : i <= j]
                      name == MatchKwName(t, kw)
                      atName == LStrip(SubSeq(t, Len(kw) + 1, Len(t)))
                  IN  Some(<<name, Len(s) - Len(atName) + Len(name)>>)

\* re.finditer: non-overlapping matches, left to right
RECURSIVE FindExports(_, _)
FindExports(content, p) ==
    IF p >= Len(content) THEN <<>>
    ELSE LET m == MatchExportAt(SubSeq(content, p + 1, Len(content)))
         IN  IF m = None THEN FindExports(content, p + 1)
             ELSE <<m[1][1]>> \o FindExports(content, p + m[1][2])

ExtractExports(content, lang) ==
    IF lang = "py"
    THEN LET m == SearchAll(content)
         IN  IF m = None THEN <<>>
             ELSE LET parts == Split(m[1], ",")
                  IN  [i \in DOMAIN parts |->
                          StripChars(Strip(parts[i]), {"'", "\""})]
    ELSE IF lang \in JsLangs THEN FindExports(content, 0)
    ELSE <<>>

-----------------------------------------------------------------------------
(* ASTChunker._is_entry_point                                              *)

EntryPointPatterns ==
    { <<"m","a","i","n">>, <<"s","e","r","v","e","r">>, <<"a","p","p">>, <<"i","n","d","e","x">>, <<"r","o","u","t","e","s">>, <<"e","n","t","r","y">>,
      <<"s","t","a","r","t">>, <<"b","o","o","t","s","t","r","a","p">>, <<"i","n","i","t">>, <<"r","u","n">> }

EntryIndicators ==
    { <<"i","f"," ","_","_","n","a","m","e","_","_"," ","=","="," ","\"","_","_","m","a","i","n","_","_","\"">>, <<"m","a","i","n","(",")">>, <<"a","p","p",".","l","i","s","t","e","n">>,
      <<"s","e","r","v","e","r",".","l","i","s","t","e","n">>, <<"f","u","n","c"," ","m","a","i","n","(",")">>, <<"p","u","b","l","i","c"," ","s","t","a","t","i","c"," ","v","o","i","d"," ","m","a","i","n">> }

IsEntryPoint(path, content) ==
    \/ \E p \in EntryPointPatterns : Contains(Lower(PathStem(path)), p)
    \/ \E ind \in EntryIndicators : Contains(content, ind)

-----------------------------------------------------------------------------
(* ASTChunker._extract_imports and _extract_symbols                        *)
(* A matcher gives None or Some(<<text, length of the match>>) for the     *)
(* pattern tried at the start of its argument.                             *)

KwImport == <<"i","m","p","o","r","t">>
KwFrom == <<"f","r","o","m">>
KwAs == <<"a","s">>
KwFunc == <<"f","u","n","c">>
KwType == <<"t","y","p","e">>
Quotes == {"'", "\""}

\* s[n:]
Drop(s, n) == SubSeq(s, n + 1, Len(s))

\* the length of the run of whitespace s starts with
WsLen(s) == Len(s) - Len(LStrip(s))

\* r'KW\s+(\w+)' at the start of s
MatchKwNameAt(s, kw) ==
    LET name == MatchKwName(s, kw)
    IN  IF name = <<>> THEN None
        ELSE Some(<<name, Len(kw) + WsLen(Drop(s, Len(kw))) + Len(name)>>)

\* r'(?:export\s+)?class\s+(\w+)' at the start of s
MatchJsClassAt(s) ==
    LET t == SkipOptional(s, KwExport)
        m == MatchKwNameAt(t, KwClass)
    IN  IF m = None THEN None ELSE Some(<<m[1][1], Len(s) - Len(t) + m[1][2]>>)

\* r'(?:export\s+)?(?:function\s+(\w+)|const\s+(\w+)\s*=\s*(?:async\s+)?\s*\()'
\* at the start of s, with the group that took part as the text
MatchJsFunctionAt(s) ==
    LET t == SkipOptional(s, KwExport)
        f == MatchKwNameAt(t, KwFunction)
        c == MatchKwNameAt(t, KwConst)
        afterName == LStrip(Drop(t, c[1][2]))
        afterEq == LStrip(SkipOptional(LStrip(Tail(afterName)), KwAsync))
    IN  IF f # None THEN Some(<<f[1][1], Len(s) - Len(t) + f[1][2]>>)
        ELSE IF /\ c # None
                /\ afterName # <<>> /\ Head(afterName) = "="
                /\ afterEq # <<>> /\ Head(afterEq) = "("
             THEN Some(<<c[1][1], Len(s) - Len(afterEq) + 1>>)
             ELSE None

\* r'import\s+([^\n]+)' at the start of s: \s+ gives back whitespace until a
\* character other than a newline follows it
MatchImportTailAt(s) ==
    IF ~StartsWith(s, KwImport) THEN None
    ELSE LET r == Drop(s, Len(KwImport))
             ks == {k \in 1..WsLen(r) : k < Len(r) /\ r[k + 1] # NL}
         IN  IF ks = {} THEN None
             ELSE LET k == CHOOSE i \in ks : \A j \in ks : j <= i
                      text == TakeUntil(Drop(r, k), {NL})
                  IN  Some(<<text, Len(KwImport) + k + Len(text)>>)

\* r'(?:from\s+(\S+)\s+)?import\s+([^\n]+)' at the start of s, with the
\* string lines 243-246 append as the text
MatchPyImportAt(s) ==
    LET a == LStrip(Drop(s, Len(KwFrom)))
        mod == TakeUntil(a, Whitespace)
        b == Drop(a, Len(mod))
        m == MatchImportTailAt(LStrip(b))
    IN  IF /\ StartsWith(s, KwFrom)
           /\ WsLen(Drop(s, Len(KwFrom))) > 0
           /\ mod # <<>>
           /\ WsLen(b) > 0
           /\ m # None
        THEN Some(<<mod \o <<".">> \o m[1][1], Len(s) - Len(LStrip(b)) + m[1][2]>>)
        ELSE MatchImportTailAt(s)

\* r'(?:{[^}]+}|\w+|\*\s+as\s+\w+)' at the start of s: what is left of s
\* behind the match as Some(rest), or None
SkipJsImportClause(s) ==
    IF s = <<>> THEN None
    ELSE IF Head(s) = "{"
    THEN LET body == TakeUntil(Tail(s), {"}"})
         IN  IF body = <<>> \/ Len(body) = Len(Tail(s)) THEN None
             ELSE Some(Drop(s, Len(body) + 2))
    ELSE IF Head(s) \in WordChar
    THEN Some(Drop(s, Len(TakeWhile(s, WordChar))))
    ELSE IF Head(s) = "*"
    THEN LET a == LStrip(Tail(s))
             b == LStrip(Drop(a, Len(KwAs)))
             w == TakeWhile(b, WordChar)
         IN  IF /\ WsLen(Tail(s)) > 0
                /\ StartsWith(a, KwAs)
                /\ WsLen(Drop(a, Len(KwAs))) > 0
                /\ w # <<>>
             THEN Some(Drop(b, Len(w))) ELSE None
    ELSE None

\* r'[\'"]([^\'"]+)[\'"]' at the start of s
MatchQuotedAt(s) ==
    IF s = <<>> \/ Head(s) \notin Quotes THEN None
    ELSE LET text == TakeUntil(Tail(s), Quotes)
         IN  IF text = <<>> \/ Len(text) = Len(Tail(s)) THEN None
             ELSE Some(<<text, Len(text) + 2>>)

\* r'import\s+(?:{[^}]+}|\w+|\*\s+as\s+\w+)\s+from\s+[\'"]([^\'"]+)[\'"]'
\* at the start of s
MatchJsImportAt(s) ==
    LET r == Drop(s, Len(KwImport))
        clause == SkipJsImportClause(LStrip(r))
        c == LStrip(clause[1])
        d == Drop(c, Len(KwFrom))
        q == MatchQuotedAt(LStrip(d))
    IN  IF /\ StartsWith(s, KwImport)
           /\ WsLen(r) > 0
           /\ clause # None
           /\ WsLen(clause[1]) > 0
           /\ StartsWith(c, KwFrom)
           /\ WsLen(d) > 0
           /\ q # None
        THEN Some(<<q[1][1], Len(s) - Len(LStrip(d)) + q[1][2]>>)
        ELSE None

\* r'import\s+(?:[\'"]([^\'"]+)[\'"]|\(\s*[\'"]([^\'"]+)[\'"]\s*\))' at the
\* start of s, with group(1) or group(2) as the text
MatchGoImportAt(s) ==
    LET r == Drop(s, Len(KwImport))
        a == LStrip(r)
        q == MatchQuotedAt(a)
        inner == LStrip(Tail(a))
        p == MatchQuotedAt(inner)
        close == LStrip(Drop(inner, p[1][2]))
    IN  IF ~(StartsWith(s, KwImport) /\ WsLen(r) > 0) THEN None
        ELSE IF q # None THEN Some(<<q[1][1], Len(s) - Len(a) + q[1][2]>>)
        ELSE IF /\ a # <<>> /\ Head(a) = "("
                /\ p # None
                /\ close # <<>> /\ Head(close) = ")"
             THEN Some(<<p[1][1], Len(s) - Len(close) + 1>>)
             ELSE None

\* the patterns of _extract_imports and _extract_symbols, by name
MatchPatternAt(pattern, s) ==
    CASE pattern = "py_import" -> MatchPyImportAt(s)
      [] pattern = "js_import" -> MatchJsImportAt(s)
      [] pattern = "go_import" -> MatchGoImportAt(s)
      [] pattern = "py_class" -> MatchKwNameAt(s, KwClass)
      [] pattern = "py_func" -> MatchKwNameAt(s, KwDef)
      [] pattern = "js_class" -> MatchJsClassAt(s)
      [] pattern = "js_func" -> MatchJsFunctionAt(s)
      [] pattern = "go_func" -> MatchKwNameAt(s, KwFunc)
      [] pattern = "go_type" -> MatchKwNameAt(s, KwType)

\* re.finditer / re.findall from offset p on: the texts of the matches that
\* do not overlap, left to right; with at_line_start the pattern begins
\* with ^ under re.MULTILINE
RECURSIVE FindAll(_, _, _, _)
FindAll(content, p, at_line_start, pattern) ==
    IF p >= Len(content) THEN <<>>
    ELSE LET m == IF at_line_start /\ p > 0 /\ content[p] # NL THEN None
                  ELSE MatchPatternAt(pattern, Drop(content, p))
         IN  IF m = None THEN FindAll(content, p + 1, at_line_start, pattern)
             ELSE <<m[1][1]>> \o FindAll(content, p + m[1][2], at_line_start, pattern)

ExtractImports(content, lang) ==
    IF lang = "py" THEN FindAll(content, 0, TRUE, "py_import")
    ELSE IF lang \in JsLangs THEN FindAll(content, 0, FALSE, "js_import")
    ELSE IF lang = "go" THEN FindAll(content, 0, FALSE, "go_import")
    ELSE <<>>

ExtractSymbols(content, lang) ==
    IF lang = "py"
    THEN FindAll(content, 0, TRUE, "py_class") \o FindAll(content, 0, TRUE, "py_func")
    ELSE IF lang \in JsLangs
    THEN FindAll(content, 0, TRUE, "js_class") \o FindAll(content, 0, TRUE, "js_func")
    ELSE IF lang = "go"
    THEN FindAll(content, 0, TRUE, "go_func") \o FindAll(content, 0, TRUE, "go_type")
    ELSE <<>>

-----------------------------------------------------------------------------
(* ASTChunker._analyze_file and _index_repository                          *)
(* A file of the tree is [path, status, content, st_size]: status "text"   *)
(* (content is its text), "binary" (reading it raises UnicodeDecodeError)  *)
(* or "unreadable" (open raises another error).                            *)

\* hashlib.sha256(content.encode()).hexdigest(), taken as collision-free
Sha256(content) == <<"sha256", content>>

\* the centrality_score of a fresh FileMetadata: 0.0, as a fraction
ZeroScore == [num |-> 0, den |-> 1]

AnalyzeFile(file) ==
    IF file.status = "binary"
    THEN [path |-> file.path, size_bytes |-> file.st_size, sha256 |-> <<>>,
          lang |-> "binary", imports |-> <<>>, exports |-> <<>>,
          symbols |-> <<>>, is_entry_point |-> FALSE,
          centrality_score |-> ZeroScore]
    ELSE LET lang == DetectLanguage(file.path)
         IN  [path |-> file.path, size_bytes |-> Len(file.content),
              sha256 |-> Sha256(file.content), lang |-> lang,
              imports |-> ExtractImports(file.content, lang),
              exports |-> ExtractExports(file.content, lang),
              symbols |-> ExtractSymbols(file.content, lang),
              is_entry_point |-> IsEntryPoint(file.path, file.content),
              centrality_score |-> ZeroScore]

\* IndexRepository that leaves out the files that do not decode as well
RECURSIVE IndexRepositoryTextOnly(_, _)
IndexRepositoryTextOnly(root, files) ==
    IF files = <<>> THEN <<>>
    ELSE LET f == Head(files)
         IN  (IF ShouldIgnoreFile(FullPath(root, f.path)) \/ f.status # "text"
              THEN <<>> ELSE <<AnalyzeFile(f)>>)
             \o IndexRepositoryTextOnly(root, Tail(files))

\* a file whose analysis raises is reported and left out (lines 162-164)
RECURSIVE IndexRepository(_, _)
IndexRepository(root, files) ==
    IF files = <<>> THEN <<>>
    ELSE LET f == Head(files)
         IN  (IF ShouldIgnoreFile(FullPath(root, f.path)) \/ f.status = "unreadable"
              THEN <<>> ELSE <<AnalyzeFile(f)>>)
             \o IndexRepository(root, Tail(files))

-----------------------------------------------------------------------------
(* ASTChunker._calculate_centrality                                        *)
(* A score is the fraction num/den that the float division of two small    *)
(* integers denotes; fractions are compared by cross-multiplication.       *)

EntryBoost == 10

SeqToSet(s) == {s[i] : i \in DOMAIN s}

\* export_map[exp]: the paths of the files that export exp
ExportMap(fms, exp) ==
    {fms[i].path : i \in {j \in DOMAIN fms : exp \in SeqToSet(fms[j].exports)}}

RECURSIVE SumExports(_, _)
SumExports(fms, exports) ==
    IF exports = <<>> THEN 0
    ELSE Cardinality(ExportMap(fms, Head(exports))) + SumExports(fms, Tail(exports))

\* centrality_scores[fm.path] after the loop of lines 342-349
RawScore(fms, fm) ==
    SumExports(fms, fm.exports) + (IF fm.is_entry_point THEN EntryBoost ELSE 0)

\* the paths that are keys of centrality_scores: the defaultdict gets a key
\* only where += ran
Scored(fms) ==
    {i \in DOMAIN fms : fms[i].exports # <<>> \/ fms[i].is_entry_point}

\* MaxScore that takes the score of the first file that has one, not the
\* largest
MaxScoreFirst(fms) ==
    IF Scored(fms) = {} THEN 1
    ELSE RawScore(fms, fms[CHOOSE k \in Scored(fms) : \A j \in Scored(fms) : k <= j])

\* max(centrality_scores.values()) if centrality_scores else 1
MaxScore(fms) ==
    IF Scored(fms) = {} THEN 1
    ELSE LET i == CHOOSE k \in Scored(fms) :
                    \A j \in Scored(fms) : RawScore(fms, fms[j]) <= RawScore(fms, fms[k])
         IN  RawScore(fms, fms[i])

\* CalculateCentrality that empties the export lists it has counted
CalculateCentralityConsuming(fms) ==
    [i \in DOMAIN fms |->
        [fms[i] EXCEPT !.centrality_score =
                           [num |-> RawScore(fms, fms[i]), den |-> MaxScore(fms)],
                       !.exports = <<>>]]

CalculateCentrality(fms) ==
    [i \in DOMAIN fms |->
        [fms[i] EXCEPT !.centrality_score =
            [num |-> RawScore(fms, fms[i]), den |-> MaxScore(fms)]]]

ScoreLess(a, b) == a.num * b.den < b.num * a.den
ScoreEq(a, b) == a.num * b.den = b.num * a.den

-----------------------------------------------------------------------------
(* ASTChunker._determine_traversal_order                                   *)

\* PriorityLess without the entry-point component of the key
PriorityLessNoEntry(a, b) ==
    \/ ScoreLess(a.centrality_score, b.centrality_score)
    \/ /\ ScoreEq(a.centrality_score, b.centrality_score)
       /\ -a.size_bytes < -b.size_bytes

\* priority_score(a) < priority_score(b) for the tuples
\* (is_entry_point, centrality_score, -size_bytes)
PriorityLess(a, b) ==
    \/ ~a.is_entry_point /\ b.is_entry_point
    \/ /\ a.is_entry_point = b.is_entry_point
       /\ \/ ScoreLess(a.centrality_score, b.centrality_score)
          \/ /\ ScoreEq(a.centrality_score, b.centrality_score)
             /\ -a.size_bytes < -b.size_bytes

\* InsertDesc that puts x in front of the elements equal to it, as a
\* descending order obtained by reversing an ascending sort would
RECURSIVE InsertDescUnstable(_, _)
InsertDescUnstable(acc, x) ==
    IF acc = <<>> THEN <<x>>
    ELSE IF ~PriorityLess(x, Head(acc)) THEN <<x>> \o acc
    ELSE <<Head(acc)>> \o InsertDescUnstable(Tail(acc), x)

\* sorted(..., reverse=True) is stable: x goes behind every element that
\* does not compare below it
RECURSIVE InsertDesc(_, _)
InsertDesc(acc, x) ==
    IF acc = <<>> THEN <<x>>
    ELSE IF PriorityLess(Head(acc), x) THEN <<x>> \o acc
    ELSE <<Head(acc)>> \o InsertDesc(Tail(acc), x)

RECURSIVE SortedDesc(_, _)
SortedDesc(acc, rest) ==
    IF rest = <<>> THEN acc
    ELSE SortedDesc(InsertDesc(acc, Head(rest)), Tail(rest))

DetermineTraversalOrder(fms) ==
    LET sorted_files == SortedDesc(<<>>, fms)
    IN  [i \in DOMAIN sorted_files |-> sorted_files[i].path]

-----------------------------------------------------------------------------
(* ASTChunker._extract_prelude                                             *)

PreludePrefixes ==
    { <<"i","m","p","o","r","t"," ">>, <<"f","r","o","m"," ">>, <<"c","o","n","s","t"," ">>, <<"l","e","t"," ">>, <<"v","a","r"," ">>, <<"/","/">>, <<"#">>,
      <<"/","*">>, <<"p","a","c","k","a","g","e"," ">>, <<"u","s","e"," ">> }

KeepInPrelude(line) ==
    LET stripped == Strip(line)
    IN  stripped = <<>> \/ \E p \in PreludePrefixes : StartsWith(stripped, p)

RECURSIVE Filter(_)
Filter(lines) ==
    IF lines = <<>> THEN <<>>
    ELSE (IF KeepInPrelude(Head(lines)) THEN <<Head(lines)>> ELSE <<>>)
         \o Filter(Tail(lines))

\* ExtractPrelude without the cut of line 594
ExtractPreludeUncapped(content, unit_start, n_prelude_lines) ==
    Join(Filter(Split(Slice(content, 0, unit_start), NL)))

ExtractPrelude(content, unit_start, n_prelude_lines) ==
    LET lines == Split(Slice(content, 0, unit_start), NL)
    IN  Join(Filter(SubSeq(lines, 1, Min(Len(lines), n_prelude_lines))))

-----------------------------------------------------------------------------
(* ASTChunker._create_file_chunk, _split_large_file, _create_chunks        *)
(* A chunk id f"{sha256}:{start}:{end}" is the triple of its parts.  The   *)
(* summary and edges of ChunkMetadata are left out.                        *)

BinaryPlaceholder == <<"[","B","i","n","a","r","y"," ","f","i","l","e","]">>

PreludeCharsPerLine == 50

CreateFileChunk(file, fm, n_prelude_lines) ==
    LET content == IF file.status = "binary" THEN BinaryPlaceholder
                   ELSE file.content
        n_lines == Len(Split(content, NL))
    IN  [chunk_id |-> <<fm.sha256, 0, Len(content)>>,
         type |-> "file", path |-> fm.path, lang |-> fm.lang,
         parent_file_hash |-> None,
         byte_start |-> 0, byte_end |-> Len(content),
         prelude |-> [content |-> Slice(content, 0,
                          Min(Len(content), n_prelude_lines * PreludeCharsPerLine)),
                      lines |-> <<0, Min(n_lines, n_prelude_lines)>>],
         unit |-> [kind |-> "file", name |-> PathStem(file.path),
                   span_lines |-> <<0, n_lines>>, content |-> content],
         neighbors |-> None]

\* the units _split_large_file gets from the parser ([] for a binary file,
\* which returns before parsing)
UnitsOf(file, fm) ==
    IF file.status = "binary" THEN <<>>
    ELSE ParseRegexUnits(file.content, fm.lang)

UnitChunk(file, fm, us, i, n_prelude_lines) ==
    LET unit == us[i]
        prelude_content == ExtractPrelude(file.content, unit.start, n_prelude_lines)
    IN  [chunk_id |-> <<fm.sha256, unit.start, unit.end>>,
         type |-> "unit", path |-> fm.path, lang |-> fm.lang,
         parent_file_hash |-> Some(fm.sha256),
         byte_start |-> unit.start, byte_end |-> unit.end,
         prelude |-> [content |-> prelude_content,
                      lines |-> <<0, Len(Split(prelude_content, NL))>>],
         unit |-> [kind |-> unit.kind, name |-> unit.name,
                   span_lines |-> <<unit.start_line, unit.end_line>>,
                   content |-> Slice(file.content, unit.start, unit.end)],
         neighbors |-> Some([prev |-> IF i > 1 THEN Some(us[i - 1].name) ELSE None,
                             next |-> IF i < Len(us) THEN Some(us[i + 1].name)
                                      ELSE None])]

SplitLargeFile(file, fm, n_prelude_lines) ==
    IF file.status = "binary" THEN <<>>
    ELSE LET us == UnitsOf(file, fm)
         IN  IF us = <<>> THEN <<CreateFileChunk(file, fm, n_prelude_lines)>>
             ELSE [i \in DOMAIN us |-> UnitChunk(file, fm, us, i, n_prelude_lines)]

\* the file of the tree that repo_root / fm.path names
FileAt(files, path) == files[CHOOSE i \in DOMAIN files : files[i].path = path]

ChunksOfFile(files, fm, threshold, n_prelude_lines) ==
    IF fm.size_bytes > threshold
    THEN SplitLargeFile(FileAt(files, fm.path), fm, n_prelude_lines)
    ELSE <<CreateFileChunk(FileAt(files, fm.path), fm, n_prelude_lines)>>

RECURSIVE CreateChunks(_, _, _, _)
CreateChunks(files, fms, threshold, n_prelude_lines) ==
    IF fms = <<>> THEN <<>>
    ELSE ChunksOfFile(files, Head(fms), threshold, n_prelude_lines)
         \o CreateChunks(files, Tail(fms), threshold, n_prelude_lines)

-----------------------------------------------------------------------------
(* LLMScanner._estimate_chunk_tokens and _group_chunks_by_context          *)
(* The packer reads of a chunk only the word counts of its prelude content *)
(* and its unit content; a chunk handed to it is [chunk_id, path,          *)
(* prelude_words, unit_words].                                             *)

MaxTokensPerGroup == 15000
MaxChunksPerGroup == 3
MaxTokensPerChunk == 8000
BaseOverhead == 500

\* what analyze_repository passes on of a chunk of the chunking result
PackerView(chunk) ==
    [chunk_id |-> chunk.chunk_id, path |-> chunk.path,
     prelude_words |-> WordCount(chunk.prelude.content),
     unit_words |-> WordCount(chunk.unit.content)]

\* int(words * 1.3 + words * 1.3 + 500): 1.3 is 13/10, int() truncates
EstimateChunkTokens(chunk) ==
    (13 * chunk.prelude_words + 13 * chunk.unit_words + 10 * BaseOverhead) \div 10

\* EmptyPacker if the packer kept its lists on the scanner between calls
StalePacker == packer

\* groups = [], current_group = [], current_tokens = 0 (lines 222-224)
EmptyPacker == [groups |-> <<>>, current_group |-> <<>>, current_tokens |-> 0]

\* chunk_tokens > 8000 (line 235)
TooLarge(chunk) == EstimateChunkTokens(chunk) > MaxTokensPerChunk

\* MustClose with the chunk count compared by > instead of >=
MustCloseLate(st, chunk_tokens) ==
    \/ st.current_tokens + chunk_tokens > MaxTokensPerGroup
    \/ Len(st.current_group) > MaxChunksPerGroup

\* MustClose that starts a new group for every chunk
MustCloseAlways(st, chunk_tokens) == st.current_tokens + chunk_tokens > 0

\* the condition of lines 241-242
MustClose(st, chunk_tokens) ==
    \/ st.current_tokens + chunk_tokens > MaxTokensPerGroup
    \/ Len(st.current_group) >= MaxChunksPerGroup

\* one iteration of the loop of lines 230-249
GroupStep(st, chunk) ==
    LET chunk_tokens == EstimateChunkTokens(chunk)
        opened == IF MustClose(st, chunk_tokens) /\ st.current_group # <<>>
                  THEN [groups |-> Append(st.groups, st.current_group),
                        current_group |-> <<>>, current_tokens |-> 0]
                  ELSE st
    IN  IF TooLarge(chunk) THEN st
        ELSE [opened EXCEPT !.current_group = Append(@, chunk),
                            !.current_tokens = @ + chunk_tokens]

\* GroupFinish that returns the closed groups only
GroupFinishClosedOnly(st) == st.groups

\* lines 251-253 and the return
GroupFinish(st) ==
    IF st.current_group # <<>> THEN Append(st.groups, st.current_group)
    ELSE st.groups

RECURSIVE GroupLoop(_, _)
GroupLoop(st, cs) ==
    IF cs = <<>> THEN st ELSE GroupLoop(GroupStep(st, Head(cs)), Tail(cs))

\* the whole of _group_chunks_by_context
GroupChunksByContext(cs) == GroupFinish(GroupLoop(EmptyPacker, cs))

-----------------------------------------------------------------------------
(* LLMScanner._analyze_chunk_group and _combine_analysis_results           *)
(* The answer of the LLM is an input: "ok" is a parsed answer (here with   *)
(* one finding), "failed" is any of the failures that end in               *)
(* _get_fallback_chunk_group_result, "unsized" is a parsed JSON object     *)
(* whose "findings" is null or a number, which line 321 lets through.      *)

LLMOutcomes == {"ok", "failed", "unsized"}

\* len(result.get('findings', [])) of line 671 and all_findings.extend of
\* line 685 raise TypeError on a result whose findings is null or a number
FindingsSized(results) == \A k \in DOMAIN results : results[k].findings_sized

AnalyzeChunkGroup(chunk_group, is_main_agent, outcome) ==
    [findings |-> IF outcome = "ok" THEN <<"finding">> ELSE <<>>,
     findings_sized |-> outcome # "unsized",
     agent_type |-> IF is_main_agent THEN "main" ELSE "sub",
     chunks_analyzed |-> Len(chunk_group),
     error |-> outcome # "ok"]

RECURSIVE AllFindings(_)
AllFindings(results) ==
    IF results = <<>> THEN <<>>
    ELSE Head(results).findings \o AllFindings(Tail(results))

\* the sentence of line 672, by its two numbers
SummarizePreviousResults(previous_results) ==
    [total_findings |-> Len(AllFindings(previous_results)),
     n_results |-> Len(previous_results)]

\* lines 296-299: what the prompt of a group is built from
CreatePrompt(chunk_group, is_main_agent, previous_results) ==
    [agent |-> IF is_main_agent THEN "main" ELSE "sub",
     chunk_group |-> chunk_group,
     previous |-> IF is_main_agent THEN None
                  ELSE Some(SummarizePreviousResults(previous_results))]

\* With no result the method returns _get_fallback_response(), a JSON
\* string; otherwise the combined report.  Both carry is_str here.
CombineAnalysisResults(results) ==
    IF results = <<>>
    THEN [is_str |-> TRUE, findings |-> <<>>, findings_total_count |-> 0,
          agents_used |-> 0]
    ELSE [is_str |-> FALSE, findings |-> AllFindings(results),
          findings_total_count |-> Len(AllFindings(results)),
          agents_used |-> Len(results)]

-----------------------------------------------------------------------------
(* The repositories the model is run on                                    *)

MaxFiles == 3
SizeThreshold == 40
PreludeLines == 20

TextFile(path, content) ==
    [path |-> path, status |-> "text", content |-> content, st_size |-> Len(content)]

BinaryFile(path, st_size) ==
    [path |-> path, status |-> "binary", content |-> <<>>, st_size |-> st_size]

\* a file that open() refuses with PermissionError or another OSError
UnreadableFile(path) ==
    [path |-> path, status |-> "unreadable", content |-> <<>>, st_size |-> 0]

MainPy == <<"m","a","i","n",".","p","y">>
UtilsPy == <<"u","t","i","l","s",".","p","y">>
ReadmeMd == <<"R","E","A","D","M","E",".","m","d">>
LibPy == <<"l","i","b",".","p","y">>
BlobBin == <<"b","l","o","b",".","b","i","n">>

MainPyFile == TextFile(MainPy, <<"i","f"," ","_","_","n","a","m","e","_","_"," ","=","="," ","\"","_","_","m","a","i","n","_","_","\"",":","\n"," "," "," "," ","r","u","n","(",")","\n">>)
UtilsPyFile == TextFile(UtilsPy, <<"d","e","f"," ","h","e","l","p","e","r","(",")",":","\n"," "," "," "," ","p","a","s","s","\n","d","e","f"," ","o","t","h","e","r","(",")",":","\n"," "," "," "," ","p","a","s","s","\n">>)
ReadmeSmallFile == TextFile(ReadmeMd, <<"#"," ","h","i","\n">>)
ReadmeLargeFile ==
    TextFile(ReadmeMd, <<"#"," ","d","o","c","\n","t","h","i","s"," ","t","e","x","t"," ","i","s"," ","l","o","n","g","e","r"," ","t","h","a","n"," ","t","h","e"," ","h","e","l","p","e","r"," ","m","o","d","u","l","e"," ","i","s","\n">>)
LibPyFile ==
    TextFile(LibPy, <<"_","_","a","l","l","_","_"," ","="," ","[","\"","a","\"",",","\"","b","\"",",","\"","c","\"",",","\"","d","\"",",","\"","e","\"",",","\"","f","\"",",","\"","g","\"",",","\"","h","\"",",","\"","i","\"",",","\"","j","\"",",","\"","k","\"","]","\n">>)
BlobLargeFile == BinaryFile(BlobBin, 90)
BlobSmallFile == BinaryFile(BlobBin, 5)
UtilsLockedFile == UnreadableFile(UtilsPy)
DistMainPyFile == TextFile(<<"d","i","s","t","/","m","a","i","n",".","p","y">>, <<"x"," ","="," ","1","\n">>)
UtilsCallerFile == TextFile(UtilsPy, <<"m","a","i","n","(",")","\n">>)

Pool == {MainPyFile, UtilsPyFile, ReadmeSmallFile, ReadmeLargeFile, LibPyFile,
         BlobLargeFile, BlobSmallFile, UtilsLockedFile, UtilsCallerFile,
         DistMainPyFile}

\* the listings rglob can give: files with pairwise different paths
Trees ==
    {t \in UNION {[1..n -> Pool] : n \in 0..MaxFiles} :
        \A i, j \in DOMAIN t : i # j => t[i].path # t[j].path}

\* a root outside every ignore pattern, and a checkout under a build directory
Roots == {<<"/","r">>, <<"/","b","u","i","l","d","/","r">>}

NoPacker == [groups |-> <<>>, current_group |-> <<>>, current_tokens |-> 0]
NoRun == [chunk_ids |-> {}, traversal_order |-> <<>>, groups |-> <<>>]
NoReport == [is_str |-> FALSE, findings |-> <<>>, findings_total_count |-> 0,
             agents_used |-> 0]

Init ==
    /\ pc = "start"
    /\ run = 1
    /\ first_run = NoRun
    /\ repo_path \in Roots
    /\ tree \in Trees
    /\ size_threshold = SizeThreshold
    /\ prelude_lines = PreludeLines
    /\ file_metadata = <<>>
    /\ traversal_order = <<>>
    /\ units = <<>>
    /\ chunks = <<>>
    /\ group_input = <<>>
    /\ chunk_index = 0
    /\ packer = NoPacker
    /\ groups = <<>>
    /\ analysis_results = <<>>
    /\ prompts = <<>>
    /\ final_report = NoReport

-----------------------------------------------------------------------------
(* chunk_repository, lines 119-135 of ast_chunker.py                       *)

scanVars == <<group_input, chunk_index, packer, groups, analysis_results,
              prompts, final_report>>
inputVars == <<run, first_run, repo_path, tree, size_threshold, prelude_lines>>

IndexRepositoryStep ==
    /\ pc = "start"
    /\ file_metadata' = IndexRepository(repo_path, tree)
    /\ pc' = "indexed"
    /\ UNCHANGED <<inputVars, traversal_order, units, chunks, scanVars>>

CalculateCentralityStep ==
    /\ pc = "indexed"
    /\ file_metadata' = CalculateCentrality(file_metadata)
    /\ pc' = "scored"
    /\ UNCHANGED <<inputVars, traversal_order, units, chunks, scanVars>>

DetermineTraversalOrderStep ==
    /\ pc = "scored"
    /\ traversal_order' = DetermineTraversalOrder(file_metadata)
    /\ pc' = "ordered"
    /\ UNCHANGED <<inputVars, file_metadata, units, chunks, scanVars>>

CreateChunksStep ==
    /\ pc = "ordered"
    /\ chunks' = CreateChunks(tree, file_metadata, size_threshold, prelude_lines)
    /\ units' = [i \in DOMAIN file_metadata |->
                    IF file_metadata[i].size_bytes > size_threshold
                    THEN UnitsOf(FileAt(tree, file_metadata[i].path), file_metadata[i])
                    ELSE <<>>]
    /\ pc' = "chunked"
    /\ UNCHANGED <<inputVars, file_metadata, traversal_order, scanVars>>

-----------------------------------------------------------------------------
(* analyze_repository, lines 178-218 of llm_scanner.py                     *)

chunkerVars == <<file_metadata, traversal_order, units, chunks>>

\* lines 178-185: the chunks of the chunking result go to the packer
StartGrouping ==
    /\ pc = "chunked"
    /\ analysis_results' = <<>>
    /\ prompts' = <<>>
    /\ group_input' = [i \in DOMAIN chunks |-> PackerView(chunks[i])]
    /\ chunk_index' = 0
    /\ packer' = EmptyPacker
    /\ pc' = "grouping"
    /\ UNCHANGED <<inputVars, chunkerVars, groups, final_report>>

GroupChunk ==
    /\ pc = "grouping"
    /\ chunk_index < Len(group_input)
    /\ packer' = GroupStep(packer, group_input[chunk_index + 1])
    /\ chunk_index' = chunk_index + 1
    /\ UNCHANGED <<pc, inputVars, chunkerVars, group_input, groups,
                   analysis_results, prompts, final_report>>

GroupReturn ==
    /\ pc = "grouping"
    /\ chunk_index = Len(group_input)
    /\ groups' = GroupFinish(packer)
    /\ pc' = "analyzing"
    /\ UNCHANGED <<inputVars, chunkerVars, group_input, chunk_index, packer,
                   analysis_results, prompts, final_report>>

\* one iteration of the loop of lines 191-202; the prompt of a sub-agent is
\* built before the try of line 303, so the TypeError of line 671 leaves
\* analyze_repository
AnalyzeGroup ==
    /\ pc = "analyzing"
    /\ Len(analysis_results) < Len(groups)
    /\ LET i == Len(analysis_results)
           is_main_agent == i = 0
       IN  IF ~is_main_agent /\ ~FindingsSized(analysis_results)
           THEN /\ pc' = "raised"
                /\ UNCHANGED <<analysis_results, prompts>>
           ELSE /\ \E outcome \in LLMOutcomes :
                      analysis_results' =
                          Append(analysis_results,
                                 AnalyzeChunkGroup(groups[i + 1], is_main_agent,
                                                   outcome))
                /\ prompts' = Append(prompts,
                                     CreatePrompt(groups[i + 1], is_main_agent,
                                                  analysis_results))
                /\ pc' = pc
    /\ UNCHANGED <<inputVars, chunkerVars, group_input, chunk_index, packer,
                   groups, final_report>>

\* line 212; line 685 raises TypeError on a result with unsized findings
Combine ==
    /\ pc = "analyzing"
    /\ Len(analysis_results) = Len(groups)
    /\ IF FindingsSized(analysis_results)
       THEN /\ final_report' = CombineAnalysisResults(analysis_results)
            /\ pc' = "combined"
       ELSE /\ pc' = "raised"
            /\ UNCHANGED final_report
    /\ UNCHANGED <<inputVars, chunkerVars, group_input, chunk_index, packer,
                   groups, analysis_results, prompts>>

\* lines 215-218: final_report.get raises AttributeError on the fallback string
Return ==
    /\ pc = "combined"
    /\ pc' = IF final_report.is_str THEN "raised" ELSE "done"
    /\ UNCHANGED <<inputVars, chunkerVars, scanVars>>

\* the caller runs analyze_repository again on the unchanged tree
Rerun ==
    /\ pc = "done"
    /\ run = 1
    /\ run' = 2
    /\ first_run' = [chunk_ids |-> {chunks[i].chunk_id : i \in DOMAIN chunks},
                     traversal_order |-> traversal_order,
                     groups |-> groups]
    /\ final_report' = NoReport
    /\ pc' = "start"
    /\ UNCHANGED <<repo_path, tree, size_threshold, prelude_lines, chunkerVars,
                   group_input, chunk_index, packer, groups, analysis_results,
                   prompts>>

ChunkRepository ==
    \/ IndexRepositoryStep
    \/ CalculateCentralityStep
    \/ DetermineTraversalOrderStep
    \/ CreateChunksStep

Scan ==
    \/ StartGrouping
    \/ GroupChunk
    \/ GroupReturn
    \/ AnalyzeGroup
    \/ Combine
    \/ Return

Next == ChunkRepository \/ Scan \/ Rerun

Spec == Init /\ [][Next]_vars

-----------------------------------------------------------------------------
(* SpecSplit: chunk_repository on a single py or js file drawn line by     *)
(* line, with size_threshold 0 so that every non-empty file goes to the    *)
(* splitter                                                                *)

MaxLines == 3

LineTemplates ==
    { <<"d","e","f"," ","f","(",")",":">>, <<" ","d","e","f"," ","g","(",")",":">>, <<"c","l","a","s","s"," ","A",":">>, <<"x">>, <<" ","x">>, <<" "," ","x">>, <<>>,
      <<"i","m","p","o","r","t"," ","a">> }

\* the prelude_lines the chunker is constructed with
PreludeLineChoices == {1, 2, PreludeLines}

\* the texts of at most MaxLines lines, with and without a final newline
Texts ==
    LET bodies == UNION {[1..n -> LineTemplates] : n \in 1..MaxLines}
    IN  {Join(b) : b \in bodies} \cup {Join(b) \o <<NL>> : b \in bodies}

ModPy == <<"m",".","p","y">>
ModJs == <<"m",".","j","s">>

JsLineTemplates ==
    { <<"f","u","n","c","t","i","o","n"," ","f","(",")"," ","{">>, <<"c","l","a","s","s"," ","A"," ","{">>, <<"f","u","n","c","t","i","o","n"," ","g","(",")">>, <<"}">>, <<"{">>, <<"x">>, <<>>,
      <<"f","u","n","c","t","i","o","n"," ","h","(",")"," ","}","{">> }

JsTexts ==
    LET bodies == UNION {[1..n -> JsLineTemplates] : n \in 1..MaxLines}
    IN  {Join(b) : b \in bodies} \cup {Join(b) \o <<NL>> : b \in bodies}

SplitFiles ==
    {TextFile(ModPy, text) : text \in Texts} \cup {TextFile(ModJs, text) : text \in JsTexts}

InitSplit ==
    /\ pc = "start"
    /\ run = 1
    /\ first_run = NoRun
    /\ repo_path \in Roots
    /\ \E file \in SplitFiles : tree = <<file>>
    /\ size_threshold = 0
    /\ prelude_lines \in PreludeLineChoices
    /\ file_metadata = <<>>
    /\ traversal_order = <<>>
    /\ units = <<>>
    /\ chunks = <<>>
    /\ group_input = <<>>
    /\ chunk_index = 0
    /\ packer = NoPacker
    /\ groups = <<>>
    /\ analysis_results = <<>>
    /\ prompts = <<>>
    /\ final_report = NoReport

NextSplit == ChunkRepository

SpecSplit == InitSplit /\ [][NextSplit]_vars

-----------------------------------------------------------------------------
(* SpecPack: the packer and the analysis loop on chunk lists drawn by size *)

MaxChunks == 4

\* word counts that give 630, 4400, 7999, 8001, 10000 and 12001 estimated
\* tokens
SizeClasses ==
    { [prelude_words |-> 0, unit_words |-> 100],
      [prelude_words |-> 0, unit_words |-> 3000],
      [prelude_words |-> 19, unit_words |-> 5750],
      [prelude_words |-> 20, unit_words |-> 5750],
      [prelude_words |-> 0, unit_words |-> 7308],
      [prelude_words |-> 0, unit_words |-> 8847] }

PackChunk(i, size) ==
    [chunk_id |-> <<Sha256(ModPy), i - 1, i>>, path |-> ModPy,
     prelude_words |-> size.prelude_words, unit_words |-> size.unit_words]

ChunkLists ==
    {[i \in DOMAIN sizes |-> PackChunk(i, sizes[i])] :
        sizes \in UNION {[1..n -> SizeClasses] : n \in 0..MaxChunks}}

InitPack ==
    /\ pc = "grouping"
    /\ run = 1
    /\ first_run = NoRun
    /\ repo_path \in Roots
    /\ tree = <<>>
    /\ size_threshold = SizeThreshold
    /\ prelude_lines = PreludeLines
    /\ file_metadata = <<>>
    /\ traversal_order = <<>>
    /\ units = <<>>
    /\ chunks = <<>>
    /\ group_input \in ChunkLists
    /\ chunk_index = 0
    /\ packer = NoPacker
    /\ groups = <<>>
    /\ analysis_results = <<>>
    /\ prompts = <<>>
    /\ final_report = NoReport

NextPack == GroupChunk \/ GroupReturn \/ AnalyzeGroup \/ Combine \/ Return

SpecPack == InitPack /\ [][NextPack]_vars

-----------------------------------------------------------------------------
(* Properties                                                              *)

\* the positions at which traversal_order belongs to the current run
Ordered == {"ordered", "chunked", "grouping", "analyzing", "combined", "done",
            "raised"}

RECURSIVE TokenSum(_)
TokenSum(g) ==
    IF g = <<>> THEN 0 ELSE EstimateChunkTokens(Head(g)) + TokenSum(Tail(g))

GroupWithinBudget(g) ==
    /\ TokenSum(g) <= MaxTokensPerGroup
    /\ Len(g) <= MaxChunksPerGroup
    /\ \A i \in DOMAIN g : EstimateChunkTokens(g[i]) <= MaxTokensPerChunk

\* C1: every group the packer has closed, is filling or has returned holds
\* at most 15000 estimated tokens and at most 3 chunks, and holds no chunk
\* of more than 8000 estimated tokens.
C1_GroupBudget ==
    \A g \in SeqToSet(groups) \cup SeqToSet(packer.groups)
             \cup {packer.current_group} : GroupWithinBudget(g)

\* an oversized chunk was met, and a group was closed for its tokens
C1_Witness ==
    /\ pc = "analyzing"
    /\ \E i \in DOMAIN group_input : TooLarge(group_input[i])
    /\ \E k \in 1..(Len(groups) - 1) :
          /\ Len(groups[k]) < MaxChunksPerGroup
          /\ TokenSum(groups[k]) + EstimateChunkTokens(groups[k + 1][1])
                > MaxTokensPerGroup

RemoveAt(s, i) == SubSeq(s, 1, i - 1) \o SubSeq(s, i + 1, Len(s))

\* what the LLM answered for each group analysed so far
Outcomes ==
    [g \in DOMAIN analysis_results |->
        IF analysis_results[g].error THEN "failed" ELSE "ok"]

\* the groups and the report of a run on the chunk list cs with these answers
ResultOf(cs, outcomes) ==
    LET gs == GroupChunksByContext(cs)
    IN  [groups |-> gs,
         report |-> CombineAnalysisResults(
                        [g \in DOMAIN gs |->
                            AnalyzeChunkGroup(gs[g], g = 1, outcomes[g])])]

\* C2: every oversized chunk is enumerable from the result of the run: the
\* groups and the report of the run differ from those of the same run on
\* the input without that chunk.
C2_OversizedEnumerable ==
    pc = "done" =>
        \A i \in DOMAIN group_input :
            TooLarge(group_input[i]) =>
                ResultOf(RemoveAt(group_input, i), Outcomes)
                    # [groups |-> groups, report |-> final_report]

\* C3: the units extracted from one file do not overlap: a unit that starts
\* before another ends at or before the start of the other.
C3_UnitsDoNotOverlap ==
    pc = "chunked" =>
        \A f \in DOMAIN units :
            \A i, j \in DOMAIN units[f] :
                units[f][i].start < units[f][j].start
                    => units[f][i].end <= units[f][j].start

\* the text of lines s..e of content, each with its newline where it has one
LinesText(content, s, e) ==
    LET lines == Split(content, NL)
    IN  Join(SubSeq(lines, s + 1, e + 1))
        \o (IF e + 1 < Len(lines) THEN <<NL>> ELSE <<>>)

\* the number of lines of a text: the newline-terminated ones and a last
\* unterminated one
LineCount(text) ==
    Cardinality({i \in DOMAIN text : text[i] = NL})
    + (IF text # <<>> /\ text[Len(text)] # NL THEN 1 ELSE 0)

\* C4: for every unit chunk the slice [byte_start, byte_end) of the file is
\* the text of lines start_line..end_line, it is the recorded unit content,
\* and the recorded span has as many lines as that content.
C4_ByteSpanFidelity ==
    pc = "chunked" =>
        \A k \in DOMAIN chunks :
            chunks[k].type = "unit" =>
                LET c == chunks[k]
                    content == FileAt(tree, c.path).content
                    s == c.unit.span_lines[1]
                    e == c.unit.span_lines[2]
                IN  /\ Slice(content, c.byte_start, c.byte_end)
                          = LinesText(content, s, e)
                    /\ Slice(content, c.byte_start, c.byte_end) = c.unit.content
                    /\ LineCount(c.unit.content) = e - s + 1

RuleLangs == {"py", "js", "ts", "jsx"}

FileLength(file) ==
    IF file.status = "binary" THEN file.st_size ELSE Len(file.content)

\* C5: a file whose language has no splitting rules yields exactly one
\* chunk, of type file, that spans the whole file, whatever its size.
C5_NoRulesOneFileChunk ==
    pc = "chunked" =>
        \A i \in DOMAIN file_metadata :
            file_metadata[i].lang \notin RuleLangs =>
                LET mine == {k \in DOMAIN chunks :
                                chunks[k].path = file_metadata[i].path}
                IN  /\ Cardinality(mine) = 1
                    /\ \A k \in mine :
                          /\ chunks[k].type = "file"
                          /\ chunks[k].byte_start = 0
                          /\ chunks[k].byte_end
                                = FileLength(FileAt(tree, file_metadata[i].path))

IndexOfPath(path) ==
    CHOOSE i \in DOMAIN file_metadata : file_metadata[i].path = path

MetaOf(path) == file_metadata[IndexOfPath(path)]

\* C6: in the traversal order every entry point comes before every file
\* that is not an entry point.
C6_EntryPointsFirst ==
    pc \in Ordered =>
        \A i, j \in DOMAIN traversal_order :
            (/\ MetaOf(traversal_order[i]).is_entry_point
             /\ ~MetaOf(traversal_order[j]).is_entry_point) => i < j

\* a file that is no entry point, indexed first and with the higher
\* centrality, together with an entry point
C6_Witness ==
    /\ pc = "ordered"
    /\ \E i, j \in DOMAIN file_metadata :
          /\ i < j
          /\ ~file_metadata[i].is_entry_point
          /\ file_metadata[j].is_entry_point
          /\ ScoreLess(file_metadata[j].centrality_score,
                       file_metadata[i].centrality_score)

\* a comes before b under (is_entry_point desc, centrality_score desc,
\* size_bytes asc), ties in the order ia, ib of the index
ComesBefore(a, b, ia, ib) ==
    \/ a.is_entry_point /\ ~b.is_entry_point
    \/ /\ a.is_entry_point = b.is_entry_point
       /\ \/ ScoreLess(b.centrality_score, a.centrality_score)
          \/ /\ ScoreEq(a.centrality_score, b.centrality_score)
             /\ \/ a.size_bytes < b.size_bytes
                \/ a.size_bytes = b.size_bytes /\ ia < ib

\* C7: the traversal order lists the indexed files sorted by entry point
\* first, then higher centrality, then smaller size, and files equal in all
\* three keep the order of the index.
C7_StableCompositeSort ==
    pc \in Ordered =>
        /\ Len(traversal_order) = Len(file_metadata)
        /\ \A i \in DOMAIN traversal_order :
              \E k \in DOMAIN file_metadata :
                  file_metadata[k].path = traversal_order[i]
        /\ \A i, j \in DOMAIN traversal_order :
              i < j => ComesBefore(MetaOf(traversal_order[i]),
                                   MetaOf(traversal_order[j]),
                                   IndexOfPath(traversal_order[i]),
                                   IndexOfPath(traversal_order[j]))

\* three files, two of them equal in all three keys and one that differs
\* from them in centrality
C7_Witness ==
    /\ pc = "ordered"
    /\ \E i, j, k \in DOMAIN file_metadata :
          /\ i < j
          /\ file_metadata[i].is_entry_point = file_metadata[j].is_entry_point
          /\ ScoreEq(file_metadata[i].centrality_score,
                     file_metadata[j].centrality_score)
          /\ file_metadata[i].size_bytes = file_metadata[j].size_bytes
          /\ file_metadata[k].is_entry_point = file_metadata[i].is_entry_point
          /\ ScoreLess(file_metadata[i].centrality_score,
                       file_metadata[k].centrality_score)

\* s without the elements that repeat their predecessor
RECURSIVE Collapse(_)
Collapse(s) ==
    IF Len(s) <= 1 THEN s
    ELSE IF s[1] = s[2] THEN Collapse(Tail(s))
    ELSE <<s[1]>> \o Collapse(Tail(s))

\* s without the elements outside S
RECURSIVE Restrict(_, _)
Restrict(s, S) ==
    IF s = <<>> THEN <<>>
    ELSE (IF Head(s) \in S THEN <<Head(s)>> ELSE <<>>) \o Restrict(Tail(s), S)

InputPaths == [i \in DOMAIN group_input |-> group_input[i].path]

\* C8: the chunk list handed to the packer is in traversal order: its files
\* follow traversal_order, the chunks of a file are consecutive, and the
\* units of a file are in the order of their offsets.
C8_ChunksInTraversalOrder ==
    pc = "grouping" =>
        /\ Collapse(InputPaths) = Restrict(traversal_order, SeqToSet(InputPaths))
        /\ \A i, j \in DOMAIN group_input :
              (i < j /\ group_input[i].path = group_input[j].path)
                  => group_input[i].chunk_id[2] < group_input[j].chunk_id[2]

IsScenario ==
    /\ Len(tree) = 3
    /\ SeqToSet(tree) \in {{MainPyFile, UtilsPyFile, ReadmeSmallFile},
                           {MainPyFile, UtilsPyFile, ReadmeLargeFile}}

\* C10: on the repository of the scenario the traversal order is main.py,
\* utils.py, README.md.
C10_ScenarioOrder ==
    (pc \in Ordered /\ IsScenario) =>
        traversal_order = <<MainPy, UtilsPy, ReadmeMd>>
-----------------------------------------------------------------------------
(* C11: two adjacent unit chunks of one file whose token estimates add up  *)
(* to 20,000 come back from the packer as two groups of one chunk each.    *)

PackerReturned == pc \in {"analyzing", "combined", "done", "raised"}

\* group_input is two chunks of one file, the second starting where the
\* first ends, with a total estimate of 20,000 tokens
IsTwoChunkScenario ==
    /\ Len(group_input) = 2
    /\ group_input[1].path = group_input[2].path
    /\ group_input[1].chunk_id[3] = group_input[2].chunk_id[2]
    /\ EstimateChunkTokens(group_input[1]) + EstimateChunkTokens(group_input[2])
           = 20000

C11_TwoGroupsOfOne ==
    (PackerReturned /\ IsTwoChunkScenario) =>
        groups = << <<group_input[1]>>, <<group_input[2]>> >>
-----------------------------------------------------------------------------
(* C12: a file whose analysis fails during indexing, with an I/O or        *)
(* permission error as well as with a decode error, does not stop the      *)
(* indexing of the other files and is itself in the file index, with empty *)
(* metadata.                                                               *)

\* file_metadata is the index of the tree
Indexed == pc # "start"

\* the files the walk of _index_repository hands to _analyze_file
Walked == {i \in DOMAIN tree : ~ShouldIgnoreFile(FullPath(repo_path, tree[i].path))}

RecordsOf(path) == {j \in DOMAIN file_metadata : file_metadata[j].path = path}

IsDegraded(fm) ==
    /\ fm.imports = <<>>
    /\ fm.exports = <<>>
    /\ fm.symbols = <<>>
    /\ ~fm.is_entry_point

C12_FailedFileStaysIndexed ==
    Indexed =>
        \A i \in Walked :
            /\ RecordsOf(tree[i].path) # {}
            /\ tree[i].status # "text" =>
                   \A j \in RecordsOf(tree[i].path) : IsDegraded(file_metadata[j])

\* the part of C12 the code keeps: one failing file never stops the others
C12_OthersStayIndexed ==
    Indexed =>
        \A i \in Walked :
            tree[i].status # "unreadable" => RecordsOf(tree[i].path) # {}

-----------------------------------------------------------------------------
(* C13: a file that cannot be decoded as UTF-8 has exactly one record in   *)
(* the file list, with language 'binary', no imports, exports or symbols,  *)
(* and is_entry_point false.                                               *)

C13_BinaryFileRecord ==
    Indexed =>
        \A i \in Walked :
            tree[i].status = "binary" =>
                /\ Cardinality(RecordsOf(tree[i].path)) = 1
                /\ \A j \in RecordsOf(tree[i].path) :
                       /\ file_metadata[j].lang = "binary"
                       /\ IsDegraded(file_metadata[j])

\* a binary file has been indexed next to a text file that has exports and
\* is an entry point
C13_Witness ==
    /\ Indexed
    /\ \E i \in Walked : tree[i].status = "binary"
    /\ \E j \in DOMAIN file_metadata :
           file_metadata[j].exports # <<>> \/ file_metadata[j].is_entry_point
-----------------------------------------------------------------------------
(* C14: a configuration with a non-positive size_threshold or              *)
(* prelude_lines is rejected before any file is read, and no chunking      *)
(* result comes from it.  (The token limits and the chunk count of a group *)
(* are the literals of lines 227-235 and are always positive.)             *)

ConfigInvalid == size_threshold <= 0 \/ prelude_lines <= 0

C14_InvalidConfigRejected == ConfigInvalid => pc = "start"
-----------------------------------------------------------------------------
(* C15: a js/ts/jsx file above the size threshold in which a matched       *)
(* class or function declaration has unbalanced braces (no brace is found, *)
(* or the depth never comes back to zero) is emitted as one whole-file     *)
(* chunk, not as unit chunks, and nothing is raised.                       *)

\* the scan that starts at line i closes a brace it has opened
RECURSIVE JsBalancedFrom(_, _, _, _)
JsBalancedFrom(lines, i, brace_count, in_unit) ==
    IF i >= Len(lines) THEN FALSE
    ELSE LET r == JsScanLine(lines[i + 1], 1, brace_count, in_unit)
         IN  \/ r.hit
             \/ /\ ~(r.in_unit /\ r.brace_count = 0)
                /\ JsBalancedFrom(lines, i + 1, r.brace_count, r.in_unit)

\* the lines of a text on which _parse_regex_units matches a js declaration
JsDeclarationLines(lines) ==
    {i \in 0..(Len(lines) - 1) :
        MatchJsClass(Strip(lines[i + 1])) # <<>> \/ MatchJsFunctionLine(Strip(lines[i + 1]))}

HasUnbalancedDeclaration(content) ==
    LET lines == Split(content, NL)
    IN  \E i \in JsDeclarationLines(lines) : ~JsBalancedFrom(lines, i, 0, FALSE)

C15_UnbalancedBracesWholeFile ==
    \A i \in DOMAIN file_metadata :
        LET fm == file_metadata[i]
            file == FileAt(tree, fm.path)
        IN  (/\ pc = "chunked"
             /\ fm.lang \in JsLangs
             /\ fm.size_bytes > size_threshold
             /\ HasUnbalancedDeclaration(file.content)) =>
                LET own == {k \in DOMAIN chunks : chunks[k].path = fm.path}
                IN  /\ Cardinality(own) = 1
                    /\ \A k \in own : /\ chunks[k].type = "file"
                                      /\ chunks[k].byte_start = 0
                                      /\ chunks[k].byte_end = Len(file.content)
-----------------------------------------------------------------------------
(* C16: _calculate_centrality leaves every centrality_score in [0,1] and   *)
(* changes nothing else (nothing at all with zero files); when no file has *)
(* an export or is an entry point every score is 0, with no division by    *)
(* zero; otherwise the files with the largest raw score have score 1.      *)

InUnitInterval(score) == score.den > 0 /\ 0 <= score.num /\ score.num <= score.den

NormalizedBy(before, after) ==
    /\ Len(after) = Len(before)
    /\ \A i \in DOMAIN before :
           /\ after[i] = [before[i] EXCEPT !.centrality_score = after[i].centrality_score]
           /\ InUnitInterval(after[i].centrality_score)
    /\ (\A i \in DOMAIN before : before[i].exports = <<>> /\ ~before[i].is_entry_point)
           => \A i \in DOMAIN after : after[i].centrality_score.num = 0
    /\ \A i \in DOMAIN before :
           (/\ \E k \in DOMAIN before :
                   before[k].exports # <<>> \/ before[k].is_entry_point
            /\ \A j \in DOMAIN before :
                   RawScore(before, before[j]) <= RawScore(before, before[i]))
               => after[i].centrality_score.num = after[i].centrality_score.den

C16_CentralityNormalized ==
    [][(pc = "indexed" /\ pc' = "scored") => NormalizedBy(file_metadata, file_metadata')]_vars

\* scores of 1, of 0 and strictly between the two in one index
C16_Witness ==
    /\ pc = "scored"
    /\ \E i, j, k \in DOMAIN file_metadata :
           /\ file_metadata[i].centrality_score.num = file_metadata[i].centrality_score.den
           /\ file_metadata[j].centrality_score.num = 0
           /\ 0 < file_metadata[k].centrality_score.num
           /\ file_metadata[k].centrality_score.num < file_metadata[k].centrality_score.den
-----------------------------------------------------------------------------
(* C17: a readable file is an entry point exactly when its lower-cased     *)
(* filename stem contains one of the ten stem patterns or its content      *)
(* contains one of the five idioms 'if __name__ == "__main__"',            *)
(* 'func main()', 'public static void main', 'app.listen' and              *)
(* 'server.listen'.                                                        *)

FiveIdioms ==
    { <<"i","f"," ","_","_","n","a","m","e","_","_"," ","=","="," ","\"","_","_","m","a","i","n","_","_","\"">>, <<"f","u","n","c"," ","m","a","i","n","(",")">>, <<"p","u","b","l","i","c"," ","s","t","a","t","i","c"," ","v","o","i","d"," ","m","a","i","n">>,
      <<"a","p","p",".","l","i","s","t","e","n">>, <<"s","e","r","v","e","r",".","l","i","s","t","e","n">> }

C17_EntryPointIff ==
    Indexed =>
        \A i \in Walked : \A j \in RecordsOf(tree[i].path) :
            tree[i].status = "text" =>
                (file_metadata[j].is_entry_point <=>
                    \/ \E p \in EntryPointPatterns :
                           Contains(Lower(PathStem(tree[i].path)), p)
                    \/ \E idiom \in FiveIdioms : Contains(tree[i].content, idiom))
-----------------------------------------------------------------------------
(* C18: a file with size_bytes at or below size_threshold yields exactly   *)
(* one chunk, of type 'file', whose unit content is the entire file        *)
(* content and whose span is [0, length of the content); only files with   *)
(* size_bytes above size_threshold are split into units.                   *)

\* chunks is the chunk list of the tree
Chunked == pc \notin {"start", "indexed", "scored", "ordered"}

ChunksAt(path) == {k \in DOMAIN chunks : chunks[k].path = path}

SmallFiles == {i \in DOMAIN file_metadata : file_metadata[i].size_bytes <= size_threshold}

\* the chunk is one file chunk that holds text from its first to its last
\* character
IsWholeFileChunk(c, text) ==
    /\ c.type = "file"
    /\ c.unit.content = text
    /\ c.byte_start = 0
    /\ c.byte_end = Len(text)

\* as stated: for every file, the content being what the file holds
C18_SmallFileOneChunk ==
    Chunked =>
        /\ \A i \in SmallFiles :
               LET file == FileAt(tree, file_metadata[i].path)
               IN  /\ Cardinality(ChunksAt(file.path)) = 1
                   /\ \A k \in ChunksAt(file.path) :
                          /\ chunks[k].type = "file"
                          /\ file.status = "text" => chunks[k].unit.content = file.content
                          /\ Len(chunks[k].unit.content) = FileLength(file)
                          /\ chunks[k].byte_start = 0
                          /\ chunks[k].byte_end = FileLength(file)
        /\ \A k \in DOMAIN chunks :
               chunks[k].type = "unit" =>
                   \A i \in DOMAIN file_metadata :
                       file_metadata[i].path = chunks[k].path =>
                           file_metadata[i].size_bytes > size_threshold

\* what the code keeps of C18: the content is the file's text for a file
\* that decodes, and the placeholder '[Binary file]' for one that does not
C18_SmallFileOneChunkOrPlaceholder ==
    Chunked =>
        /\ \A i \in SmallFiles :
               LET file == FileAt(tree, file_metadata[i].path)
               IN  /\ Cardinality(ChunksAt(file.path)) = 1
                   /\ \A k \in ChunksAt(file.path) :
                          IsWholeFileChunk(chunks[k],
                              IF file.status = "text" THEN file.content
                              ELSE BinaryPlaceholder)
        /\ \A k \in DOMAIN chunks :
               chunks[k].type = "unit" =>
                   \A i \in DOMAIN file_metadata :
                       file_metadata[i].path = chunks[k].path =>
                           file_metadata[i].size_bytes > size_threshold
-----------------------------------------------------------------------------
(* C19: every chunk id is '<content hash of the owning file>:<start        *)
(* offset>:<end offset>', built from the file content and the span only,   *)
(* and the chunks of one file have pairwise different ids.                 *)

\* the digest of what the file holds; the bytes of a file that is not text
\* are not modelled, their digest is some value that is not the empty string
HasContentHash(c, file) ==
    IF file.status = "text" THEN c.chunk_id[1] = Sha256(file.content)
    ELSE c.chunk_id[1] # <<>>

C19_ChunkIdFromContentAndSpan ==
    Chunked =>
        /\ \A k \in DOMAIN chunks :
               /\ HasContentHash(chunks[k], FileAt(tree, chunks[k].path))
               /\ chunks[k].chunk_id[2] = chunks[k].byte_start
               /\ chunks[k].chunk_id[3] = chunks[k].byte_end
        /\ \A k, l \in DOMAIN chunks :
               (k # l /\ chunks[k].path = chunks[l].path) =>
                   chunks[k].chunk_id # chunks[l].chunk_id

\* what the code keeps of C19: the id is the sha256 field of the file's
\* record with the span, and ids differ within a file
C19_ChunkIdFromRecordAndSpan ==
    Chunked =>
        /\ \A k \in DOMAIN chunks :
               chunks[k].chunk_id =
                   <<MetaOf(chunks[k].path).sha256, chunks[k].byte_start,
                     chunks[k].byte_end>>
        /\ \A k, l \in DOMAIN chunks :
               (k # l /\ chunks[k].path = chunks[l].path) =>
                   chunks[k].chunk_id # chunks[l].chunk_id
-----------------------------------------------------------------------------
(* C20: the unit chunks of one split file are emitted in strictly          *)
(* ascending start-line order; the first has no prev link, the last no     *)
(* next link, and between two adjacent ones the next link of the first and *)
(* the prev link of the second are each other's names.                     *)

UnitChunksAt(path) == {k \in ChunksAt(path) : chunks[k].type = "unit"}

\* the name of the unit chunk of the same file emitted just before k (for
\* d = -1) or just after it (for d = 1), None when k is the first or last
LinkedName(k, d) ==
    LET own == UnitChunksAt(chunks[k].path)
        side == {l \in own : (l - k) * d > 0}
    IN  IF side = {} THEN None
        ELSE Some(chunks[CHOOSE l \in side :
                      \A m \in side : (l - k) * d <= (m - k) * d].unit.name)

C20_NeighborLinksFollowOrder ==
    Chunked =>
        \A k \in DOMAIN chunks :
            chunks[k].type = "unit" =>
                /\ \A l \in UnitChunksAt(chunks[k].path) :
                       k < l => chunks[k].unit.span_lines[1] < chunks[l].unit.span_lines[1]
                /\ chunks[k].neighbors # None
                /\ chunks[k].neighbors[1].prev = LinkedName(k, -1)
                /\ chunks[k].neighbors[1].next = LinkedName(k, 1)

\* a file split into three units: the middle one has both links
C20_Witness ==
    /\ pc = "chunked"
    /\ \E k \in DOMAIN chunks :
           /\ chunks[k].type = "unit"
           /\ chunks[k].neighbors[1].prev # None
           /\ chunks[k].neighbors[1].next # None
           /\ chunks[k].neighbors[1].prev # chunks[k].neighbors[1].next
-----------------------------------------------------------------------------
(* C21: the prelude of a unit chunk is the selection, in order, of the     *)
(* blank lines and the lines with an import, from, const, let, var,        *)
(* package, use or comment prefix among the first prelude_lines lines of   *)
(* the text in front of the unit; it has at most prelude_lines lines and   *)
(* holds nothing from the unit's start on.                                 *)

DeclarativePrefixes ==
    { <<"i","m","p","o","r","t"," ">>, <<"f","r","o","m"," ">>, <<"c","o","n","s","t"," ">>, <<"l","e","t"," ">>, <<"v","a","r"," ">>, <<"p","a","c","k","a","g","e"," ">>, <<"u","s","e"," ">>,
      <<"/","/">>, <<"#">>, <<"/","*">> }

IsDeclarative(line) ==
    \/ \A i \in DOMAIN line : line[i] \in Whitespace
    \/ \E p \in DeclarativePrefixes : StartsWith(LStrip(line), p)

\* the lines of the text in front of offset start that the prelude may use
LeadingLines(content, start) ==
    LET before == Split(SubSeq(content, 1, start), NL)
    IN  SubSeq(before, 1, Min(Len(before), prelude_lines))

C21_PreludeIsFilteredPrefix ==
    Chunked =>
        \A k \in DOMAIN chunks :
            chunks[k].type = "unit" =>
                LET content == FileAt(tree, chunks[k].path).content
                    leading == LeadingLines(content, chunks[k].byte_start)
                    kept == SelectSeq(leading, IsDeclarative)
                    prelude == chunks[k].prelude.content
                IN  /\ prelude = Join(kept)
                    /\ Len(Split(prelude, NL)) <= prelude_lines
                    /\ Len(prelude) <= chunks[k].byte_start
                    /\ chunks[k].prelude.lines = <<0, Len(Split(prelude, NL))>>

\* a unit with more than prelude_lines lines in front of it, of which one
\* is kept and one is dropped
C21_Witness ==
    /\ pc = "chunked"
    /\ \E k \in DOMAIN chunks :
           /\ chunks[k].type = "unit"
           /\ LET content == FileAt(tree, chunks[k].path).content
                  leading == LeadingLines(content, chunks[k].byte_start)
              IN  /\ Len(Split(SubSeq(content, 1, chunks[k].byte_start), NL)) > prelude_lines
                  /\ \E i \in DOMAIN leading : ~IsDeclarative(leading[i])
                  /\ \E i \in DOMAIN leading : leading[i] # <<>> /\ IsDeclarative(leading[i])
-----------------------------------------------------------------------------
(* C22: a Python unit that starts at line s with indentation d ends at the *)
(* line before the first later non-blank line indented at most d, blank    *)
(* lines never ending it, and at the last line of the file when there is   *)
(* no such line; start_line <= end_line in every case.                     *)

IsBlank(line) == \A i \in DOMAIN line : line[i] \in Whitespace

\* the lines after line s (counted from 0) that end a unit indented d
Terminators(lines, s, d) ==
    {j \in (s + 1)..(Len(lines) - 1) :
        ~IsBlank(lines[j + 1]) /\ Indent(lines[j + 1]) <= d}

PythonUnitEndsAsClaimed(lines, u) ==
    LET ends == Terminators(lines, u.start_line, Indent(lines[u.start_line + 1]))
    IN  /\ u.start_line <= u.end_line
        /\ u.end_line = IF ends = {} THEN Len(lines) - 1
                        ELSE (CHOOSE j \in ends : \A m \in ends : j <= m) - 1

C22_PythonUnitEnd ==
    Chunked =>
        \A i \in DOMAIN file_metadata :
            file_metadata[i].lang = "py" =>
                \A n \in DOMAIN units[i] :
                    PythonUnitEndsAsClaimed(
                        Split(FileAt(tree, file_metadata[i].path).content, NL),
                        units[i][n])

\* a unit that holds a blank line and ends before the last line of the file
C22_Witness ==
    /\ pc = "chunked"
    /\ \E i \in DOMAIN file_metadata :
           /\ file_metadata[i].lang = "py"
           /\ \E n \in DOMAIN units[i] :
                  LET lines == Split(FileAt(tree, file_metadata[i].path).content, NL)
                      u == units[i][n]
                  IN  /\ u.end_line < Len(lines) - 1
                      /\ \E j \in (u.start_line + 1)..u.end_line : IsBlank(lines[j + 1])
-----------------------------------------------------------------------------
(* C23: a js/ts/jsx unit ends at the first line on which the brace depth,  *)
(* counted character by character from the declaration line, comes back to *)
(* zero after having been strictly positive, and never earlier, also when  *)
(* a '}' comes before the first '{'.                                       *)

\* the line (counted from 0) on which a '}' first takes the depth from 1 to
\* 0, scanning from character k of line j on; -1 when that never happens
RECURSIVE FirstReturnToZero(_, _, _, _)
FirstReturnToZero(lines, j, k, depth) ==
    IF j >= Len(lines) THEN -1
    ELSE IF k > Len(lines[j + 1]) THEN FirstReturnToZero(lines, j + 1, 1, depth)
    ELSE IF lines[j + 1][k] = "{" THEN FirstReturnToZero(lines, j, k + 1, depth + 1)
    ELSE IF lines[j + 1][k] = "}"
         THEN IF depth = 1 THEN j
              ELSE FirstReturnToZero(lines, j, k + 1, depth - 1)
    ELSE FirstReturnToZero(lines, j, k + 1, depth)

C23_JsUnitEndsAtMatchingBrace ==
    Chunked =>
        \A i \in DOMAIN file_metadata :
            file_metadata[i].lang \in JsLangs =>
                \A n \in DOMAIN units[i] :
                    LET lines == Split(FileAt(tree, file_metadata[i].path).content, NL)
                        closing == FirstReturnToZero(lines, units[i][n].start_line, 1, 0)
                    IN  closing >= 0 => units[i][n].end_line = closing

\* the first brace met from character k of line j on, "" when there is none
RECURSIVE FirstBrace(_, _, _)
FirstBrace(lines, j, k) ==
    IF j >= Len(lines) THEN ""
    ELSE IF k > Len(lines[j + 1]) THEN FirstBrace(lines, j + 1, 1)
    ELSE IF lines[j + 1][k] \in {"{", "}"} THEN lines[j + 1][k]
    ELSE FirstBrace(lines, j, k + 1)

\* what the code keeps of C23: the unit ends at that line when the first
\* brace of the scan is a '{'
C23_JsUnitEndsAtFirstClose ==
    Chunked =>
        \A i \in DOMAIN file_metadata :
            file_metadata[i].lang \in JsLangs =>
                \A n \in DOMAIN units[i] :
                    LET lines == Split(FileAt(tree, file_metadata[i].path).content, NL)
                        u == units[i][n]
                        closing == FirstReturnToZero(lines, u.start_line, 1, 0)
                    IN  (closing >= 0 /\ FirstBrace(lines, u.start_line, 1) = "{")
                            => u.end_line = closing
-----------------------------------------------------------------------------
(* C24: the packer closes a group in front of a chunk only when the chunk  *)
(* would take the group past the per-group token cap or the group already  *)
(* holds the maximum number of chunks: for two consecutive groups G and H, *)
(* tokens(G) + tokens(first chunk of H) exceeds the cap or G is full.      *)

ClosedForCause(g, h) ==
    \/ TokenSum(g) + EstimateChunkTokens(h[1]) > MaxTokensPerGroup
    \/ Len(g) = MaxChunksPerGroup

C24_GreedyPacking ==
    /\ \A i \in 1..(Len(packer.groups) - 1) :
           ClosedForCause(packer.groups[i], packer.groups[i + 1])
    /\ (packer.groups # <<>> /\ packer.current_group # <<>>) =>
           ClosedForCause(packer.groups[Len(packer.groups)], packer.current_group)
    /\ \A i \in 1..(Len(groups) - 1) : ClosedForCause(groups[i], groups[i + 1])

\* the packer has returned a group that the token cap closed while it had
\* room for more chunks, with an oversized chunk skipped in the input
C24_Witness ==
    /\ PackerReturned
    /\ \E k \in DOMAIN group_input : TooLarge(group_input[k])
    /\ \E i \in 1..(Len(groups) - 1) :
           /\ Len(groups[i]) < MaxChunksPerGroup
           /\ TokenSum(groups[i]) + EstimateChunkTokens(groups[i + 1][1]) > MaxTokensPerGroup
-----------------------------------------------------------------------------
(* C25: no stage changes what an earlier stage has produced, except that   *)
(* _calculate_centrality writes centrality_score: it keeps the order of    *)
(* the records and every other field; ordering and chunk creation keep the *)
(* records, and grouping keeps the chunk list and every chunk.             *)

OnlyScoresChange ==
    /\ Len(file_metadata') = Len(file_metadata)
    /\ \A i \in DOMAIN file_metadata :
           file_metadata'[i] =
               [file_metadata[i] EXCEPT
                    !.centrality_score = file_metadata'[i].centrality_score]

StageFrame ==
    /\ (pc = "indexed" /\ pc' = "scored") => OnlyScoresChange
    /\ (pc = "scored" /\ pc' = "ordered") => file_metadata' = file_metadata
    /\ (pc = "ordered" /\ pc' = "chunked") =>
           /\ file_metadata' = file_metadata
           /\ traversal_order' = traversal_order
    /\ (pc \in {"chunked", "grouping"} /\ pc' \in {"grouping", "analyzing"}) =>
           /\ file_metadata' = file_metadata
           /\ traversal_order' = traversal_order
           /\ chunks' = chunks
           /\ pc = "grouping" => group_input' = group_input

C25_StagesKeepEarlierOutput == [][StageFrame]_vars

\* grouping has returned groups for chunks of files with scores above zero
C25_Witness ==
    /\ pc = "analyzing"
    /\ groups # <<>>
    /\ \E i \in DOMAIN file_metadata :
           /\ file_metadata[i].centrality_score.num > 0
           /\ file_metadata[i].exports # <<>>
    /\ Len(chunks) > Len(file_metadata)
-----------------------------------------------------------------------------
(* C26: the groups the packer returns, concatenated in output order, are   *)
(* the input chunk sequence without its oversized chunks; no returned      *)
(* group is empty, and an input without a non-oversized chunk gives no     *)
(* group.                                                                  *)

RECURSIVE Flatten(_)
Flatten(gs) == IF gs = <<>> THEN <<>> ELSE Head(gs) \o Flatten(Tail(gs))

FitsAlone(chunk) == ~TooLarge(chunk)

C26_GroupsPartitionInput ==
    PackerReturned =>
        /\ Flatten(groups) = SelectSeq(group_input, FitsAlone)
        /\ \A k \in DOMAIN groups : groups[k] # <<>>
        /\ (\A i \in DOMAIN group_input : TooLarge(group_input[i])) =>
               groups = <<>>

\* an oversized chunk between two chunks that were grouped, in two groups
C26_Witness ==
    /\ PackerReturned
    /\ Len(groups) >= 2
    /\ \E i, j, k \in DOMAIN group_input :
           /\ i < j /\ j < k
           /\ FitsAlone(group_input[i])
           /\ TooLarge(group_input[j])
           /\ FitsAlone(group_input[k])
-----------------------------------------------------------------------------
(* C27: every file that has a record in the chunking result has at least   *)
(* one chunk with its path in the chunk list, a file recorded as binary    *)
(* whose size is above size_threshold included.                            *)

C27_EveryFileHasChunk ==
    Chunked =>
        \A i \in DOMAIN file_metadata :
            \E k \in DOMAIN chunks : chunks[k].path = file_metadata[i].path

\* what holds instead: the files without a chunk are the binary files above
\* size_threshold
C27_OnlyLargeBinaryWithoutChunk ==
    Chunked =>
        \A i \in DOMAIN file_metadata :
            (\E k \in DOMAIN chunks : chunks[k].path = file_metadata[i].path)
                <=> ~(/\ file_metadata[i].lang = "binary"
                      /\ FileAt(tree, file_metadata[i].path).status = "binary"
                      /\ file_metadata[i].size_bytes > size_threshold)
-----------------------------------------------------------------------------
(* C28: analyze_repository analyses the groups one after another in group  *)
(* order: group 0 as the main agent with no previous results, group i > 0  *)
(* as a sub-agent whose prompt is built from exactly the results of groups *)
(* 0..i-1; when the loop is over analysis_results holds one result per     *)
(* group in group order, also when the analysis of a group fails: a        *)
(* fallback result with zero findings takes its place and the later groups *)
(* are still processed.                                                    *)

LoopOver == pc \in {"combined", "done", "raised"}

AnalysedInOrder ==
    /\ Len(prompts) = Len(analysis_results)
    /\ Len(analysis_results) <= Len(groups)
    /\ \A k \in DOMAIN prompts :
           /\ prompts[k].chunk_group = groups[k]
           /\ prompts[k].agent = (IF k = 1 THEN "main" ELSE "sub")
           /\ prompts[k].previous =
                  (IF k = 1 THEN None
                   ELSE Some(SummarizePreviousResults(
                                 SubSeq(analysis_results, 1, k - 1))))
           /\ analysis_results[k].agent_type = prompts[k].agent
           /\ analysis_results[k].chunks_analyzed = Len(groups[k])
           /\ analysis_results[k].error =>
                  analysis_results[k].findings = <<>>
    /\ LoopOver => Len(analysis_results) = Len(groups)

C28_GroupsAnalysedInOrder == AnalysedInOrder

\* what holds instead: the same, as long as every answer parsed so far has a
\* list of findings
C28_InOrderWhileFindingsSized ==
    FindingsSized(analysis_results) => AnalysedInOrder
-----------------------------------------------------------------------------
(* C29: the span recorded in every chunk lies inside the text of its file: *)
(* 0 <= byte_start < byte_end <= length of the file's content, also for a  *)
(* unit that runs to the end of the file and for a unit whose declaration  *)
(* has no braces.                                                          *)

SpanInside(c, length) ==
    /\ 0 <= c.byte_start
    /\ c.byte_start < c.byte_end
    /\ c.byte_end <= length

C29_SpanInsideFile ==
    Chunked =>
        \A k \in DOMAIN chunks :
            SpanInside(chunks[k], Len(FileAt(tree, chunks[k].path).content))

\* what holds instead: a span runs past the text by one, and only in a unit
\* chunk whose unit reaches the last line of the text; a span is empty only
\* in the chunk of an empty file; a placeholder chunk spans the placeholder
C29_SpanInsideOrOneBeyond ==
    Chunked =>
        \A k \in DOMAIN chunks :
            LET c == chunks[k]
                file == FileAt(tree, c.path)
                length == Len(file.content)
            IN  \/ SpanInside(c, length)
                \/ /\ c.type = "unit"
                   /\ c.byte_start < length
                   /\ c.byte_end = length + 1
                   /\ c.unit.span_lines[2] = Len(Split(file.content, NL)) - 1
                \/ /\ c.type = "file"
                   /\ file.status = "text"
                   /\ length = 0
                   /\ c.byte_start = 0 /\ c.byte_end = 0
                \/ /\ c.type = "file"
                   /\ file.status = "binary"
                   /\ c.byte_start = 0
                   /\ c.byte_end = Len(BinaryPlaceholder)
-----------------------------------------------------------------------------
(* C30: whether the indexer ignores a file depends only on the file's path *)
(* relative to the repository root: the same tree under another root gives *)
(* the same set of indexed relative paths, and a file is ignored only when *)
(* its relative path matches an ignore pattern.                            *)

IndexedPaths(fms) == {fms[i].path : i \in DOMAIN fms}

\* the files of the tree that the walk passed over without analysing them
Ignored ==
    {i \in DOMAIN tree :
        /\ tree[i].status # "unreadable"
        /\ tree[i].path \notin IndexedPaths(file_metadata)}

C30_IgnoreDependsOnRelativePath ==
    Indexed =>
        /\ \A root \in Roots :
               IndexedPaths(IndexRepository(root, tree))
                   = IndexedPaths(file_metadata)
        /\ \A i \in Ignored : ShouldIgnoreFile(tree[i].path)

\* what holds instead: the pattern is looked for in the path with the root
\* in front, so under a root that matches no pattern the relative path
\* decides, and under a root that matches one every file is ignored
C30_IgnoreDependsOnFullPath ==
    Indexed =>
        /\ \A i \in DOMAIN tree :
               i \in Ignored <=>
                   /\ tree[i].status # "unreadable"
                   /\ \/ ShouldIgnoreFile(repo_path)
                      \/ ShouldIgnoreFile(tree[i].path)
        /\ ShouldIgnoreFile(repo_path) => file_metadata = <<>>

====
